---- MODULE Spec2Model ----
(***************************************************************************)
(* Verification model of the personal-assistant core: ConfigLoader,        *)
(* PromptBuilder, SessionMemory and LLMService.                            *)
(*                                                                         *)
(* Files live outside the process.  Every call observes the watched file   *)
(* once per system call it makes (exists, stat, open/read), in program     *)
(* order; an external editor may change the file between two such          *)
(* observations.  A call therefore takes a "timeline": the file as seen at *)
(* each of its observation points.                                         *)
(***************************************************************************)
EXTENDS Integers, Sequences, FiniteSets, TLC

\* ------------------------------------------------------------------ bounds

\* Largest modification time an editor gives a file (times are 1..MaxMtime).
MaxMtime == 2

\* Most turns the sessions' logs hold together before the model stops sending.
MaxTurns == 2

\* Most turns the adapter's session holds in a run with an editor at work.
MaxRunTurns == 1

\* Most log owners a SessionMemory creates in a run of the memory alone, and
\* most records callers add to them there.
MaxOwners == 2
MaxLog == 2

\* Most characters of a line typed at the prompt.
MaxInput == 3

\* ------------------------------------------------------------------ files

\* `None` of an Optional[float] timestamp; real mtimes are >= 1.
NoMtime == 0

NoFile == [exists |-> FALSE, mtime |-> NoMtime, body |-> "-"]

Mtimes == 1..MaxMtime

FilesOf(bodies) == {NoFile} \cup [exists : {TRUE}, mtime : Mtimes, body : bodies]

\* Texts a configuration file may hold.
\*   S      model, temperature, max_tokens, system_prompt: "You are S"
\*   N      model, temperature, max_tokens (no system_prompt key)
\*   E      model, temperature, max_tokens, system_prompt: ""
\*   Bad    model, temperature (max_tokens absent)
\*   Null   an empty document (mid-save truncation)
\*   Syntax text that is not YAML
CfgBodies == {"S", "N", "E", "Bad", "Null", "Syntax"}

CfgFiles == FilesOf(CfgBodies)

\* Timelines of a call with n observation points that starts with the file
\* as f: an editor changes the file at most once while the call runs.
Timelines(f, files, n) ==
    { [i \in 1..n |-> IF i < p THEN f ELSE g] : p \in 2..(n + 1), g \in files }

\* The call ran against a file nobody touched meanwhile.
Quiet(fs) == \A i \in 1..Len(fs) : fs[i] = fs[1]

\* ------------------------------------------------------------------ documents

EmptyMap == [k \in {} |-> ""]

NoDoc == [kind |-> "none", map |-> EmptyMap]

\* yaml.safe_load: the text of the file to the document it denotes.
SafeLoad(body) ==
    CASE body = "S" -> [kind |-> "map",
                        map |-> [model |-> "m", temperature |-> "0.2",
                                 max_tokens |-> "100", system_prompt |-> "You are S"]]
      [] body = "N" -> [kind |-> "map",
                        map |-> [model |-> "m2", temperature |-> "0.7",
                                 max_tokens |-> "100", top_p |-> "0.9"]]
      [] body = "E" -> [kind |-> "map",
                        map |-> [model |-> "m", temperature |-> "0.2",
                                 max_tokens |-> "100", system_prompt |-> ""]]
      [] body = "Bad" -> [kind |-> "map",
                          map |-> [model |-> "m", temperature |-> "0.2"]]
      [] body = "Null" -> [kind |-> "null", map |-> EmptyMap]
      [] OTHER -> [kind |-> "syntax", map |-> EmptyMap]

required_fields == <<"model", "temperature", "max_tokens">>

\* The validation loop of load(): the first exception it meets, or "none".
\* `field not in None` is a TypeError; a missing key a ValueError.
Validate(doc) ==
    IF doc.kind = "null" THEN "TypeError"
    ELSE IF \E i \in 1..Len(required_fields) : required_fields[i] \notin DOMAIN doc.map
         THEN "ValueError"
         ELSE "none"

\* ------------------------------------------------------------------ ConfigLoader

\* load() that records the modification time before it validates.
ConfigLoad_StampFirst(cfg, mt, fExists, fRead, fStat) ==
    LET keep(e, n) == [err |-> e, config |-> cfg, last_mtime |-> mt,
                       ret |-> NoDoc, reads |-> n]
        doc == SafeLoad(fRead.body)
    IN  IF ~fExists.exists THEN keep("FileNotFoundError", 0)
        ELSE IF ~fRead.exists THEN keep("FileNotFoundError", 0)
        ELSE IF doc.kind = "syntax" THEN keep("YAMLError", 1)
        ELSE IF ~fStat.exists
             THEN keep("FileNotFoundError", 1)
        ELSE IF Validate(doc) # "none"
             THEN [err |-> Validate(doc), config |-> cfg, last_mtime |-> fStat.mtime,
                   ret |-> NoDoc, reads |-> 1]
             ELSE [err |-> "none", config |-> doc, last_mtime |-> fStat.mtime,
                   ret |-> doc, reads |-> 1]

\* ConfigLoader.load() on a loader holding (cfg, mt); the file is observed
\* as fExists by exists(), fRead by open()/safe_load and fStat by stat().
\* err is the exception load() raises ("none": it returned ret).
ConfigLoad(cfg, mt, fExists, fRead, fStat) ==
    LET keep(e, n) == [err |-> e, config |-> cfg, last_mtime |-> mt,
                       ret |-> NoDoc, reads |-> n]
        doc == SafeLoad(fRead.body)
    IN  IF ~fExists.exists THEN keep("FileNotFoundError", 0)
        ELSE IF ~fRead.exists THEN keep("FileNotFoundError", 0)
        ELSE IF doc.kind = "syntax" THEN keep("YAMLError", 1)
        ELSE IF Validate(doc) # "none" THEN keep(Validate(doc), 1)
        ELSE IF ~fStat.exists
             THEN [err |-> "FileNotFoundError", config |-> doc, last_mtime |-> mt,
                   ret |-> NoDoc, reads |-> 1]
             ELSE [err |-> "none", config |-> doc, last_mtime |-> fStat.mtime,
                   ret |-> doc, reads |-> 1]

\* check_and_reload() that also reloads a file as old as the recorded time.
ConfigCheckAndReload_GE(cfg, mt, fs) ==
    LET r == ConfigLoad(cfg, mt, fs[3], fs[4], fs[5])
    IN  IF ~fs[1].exists
        THEN [raised |-> "none", loadErr |-> "-", reloaded |-> FALSE, ret |-> cfg,
              config |-> cfg, last_mtime |-> mt, reads |-> 0]
        ELSE IF ~fs[2].exists
        THEN [raised |-> "FileNotFoundError", loadErr |-> "-", reloaded |-> FALSE,
              ret |-> NoDoc, config |-> cfg, last_mtime |-> mt, reads |-> 0]
        ELSE IF mt = NoMtime \/ fs[2].mtime >= mt
        THEN IF r.err = "none"
             THEN [raised |-> "none", loadErr |-> "none", reloaded |-> TRUE,
                   ret |-> r.ret, config |-> r.config, last_mtime |-> r.last_mtime,
                   reads |-> r.reads]
             ELSE [raised |-> "none", loadErr |-> r.err, reloaded |-> FALSE,
                   ret |-> r.config, config |-> r.config, last_mtime |-> r.last_mtime,
                   reads |-> r.reads]
        ELSE [raised |-> "none", loadErr |-> "-", reloaded |-> FALSE, ret |-> cfg,
              config |-> cfg, last_mtime |-> mt, reads |-> 0]

\* check_and_reload() that reloads on any difference of modification time.
ConfigCheckAndReload_NE(cfg, mt, fs) ==
    LET r == ConfigLoad(cfg, mt, fs[3], fs[4], fs[5])
    IN  IF ~fs[1].exists
        THEN [raised |-> "none", loadErr |-> "-", reloaded |-> FALSE, ret |-> cfg,
              config |-> cfg, last_mtime |-> mt, reads |-> 0]
        ELSE IF ~fs[2].exists
        THEN [raised |-> "FileNotFoundError", loadErr |-> "-", reloaded |-> FALSE,
              ret |-> NoDoc, config |-> cfg, last_mtime |-> mt, reads |-> 0]
        ELSE IF mt = NoMtime \/ fs[2].mtime # mt
        THEN IF r.err = "none"
             THEN [raised |-> "none", loadErr |-> "none", reloaded |-> TRUE,
                   ret |-> r.ret, config |-> r.config, last_mtime |-> r.last_mtime,
                   reads |-> r.reads]
             ELSE [raised |-> "none", loadErr |-> r.err, reloaded |-> FALSE,
                   ret |-> r.config, config |-> r.config, last_mtime |-> r.last_mtime,
                   reads |-> r.reads]
        ELSE [raised |-> "none", loadErr |-> "-", reloaded |-> FALSE, ret |-> cfg,
              config |-> cfg, last_mtime |-> mt, reads |-> 0]

\* check_and_reload() with the comparison of modification times reversed.
ConfigCheckAndReload_LT(cfg, mt, fs) ==
    LET r == ConfigLoad(cfg, mt, fs[3], fs[4], fs[5])
    IN  IF ~fs[1].exists
        THEN [raised |-> "none", loadErr |-> "-", reloaded |-> FALSE, ret |-> cfg,
              config |-> cfg, last_mtime |-> mt, reads |-> 0]
        ELSE IF ~fs[2].exists
        THEN [raised |-> "FileNotFoundError", loadErr |-> "-", reloaded |-> FALSE,
              ret |-> NoDoc, config |-> cfg, last_mtime |-> mt, reads |-> 0]
        ELSE IF mt = NoMtime \/ fs[2].mtime < mt
        THEN IF r.err = "none"
             THEN [raised |-> "none", loadErr |-> "none", reloaded |-> TRUE,
                   ret |-> r.ret, config |-> r.config, last_mtime |-> r.last_mtime,
                   reads |-> r.reads]
             ELSE [raised |-> "none", loadErr |-> r.err, reloaded |-> FALSE,
                   ret |-> r.config, config |-> r.config, last_mtime |-> r.last_mtime,
                   reads |-> r.reads]
        ELSE [raised |-> "none", loadErr |-> "-", reloaded |-> FALSE, ret |-> cfg,
              config |-> cfg, last_mtime |-> mt, reads |-> 0]

\* check_and_reload() that forgets the cached document when the path is missing.
ConfigCheckAndReload_DropMissing(cfg, mt, fs) ==
    LET r == ConfigLoad(cfg, mt, fs[3], fs[4], fs[5])
    IN  IF ~fs[1].exists
        THEN [raised |-> "none", loadErr |-> "-", reloaded |-> FALSE, ret |-> NoDoc,
              config |-> NoDoc, last_mtime |-> NoMtime, reads |-> 0]
        ELSE IF ~fs[2].exists
        THEN [raised |-> "FileNotFoundError", loadErr |-> "-", reloaded |-> FALSE,
              ret |-> NoDoc, config |-> cfg, last_mtime |-> mt, reads |-> 0]
        ELSE IF mt = NoMtime \/ fs[2].mtime > mt
        THEN IF r.err = "none"
             THEN [raised |-> "none", loadErr |-> "none", reloaded |-> TRUE,
                   ret |-> r.ret, config |-> r.config, last_mtime |-> r.last_mtime,
                   reads |-> r.reads]
             ELSE [raised |-> "none", loadErr |-> r.err, reloaded |-> FALSE,
                   ret |-> r.config, config |-> r.config, last_mtime |-> r.last_mtime,
                   reads |-> r.reads]
        ELSE [raised |-> "none", loadErr |-> "-", reloaded |-> FALSE, ret |-> cfg,
              config |-> cfg, last_mtime |-> mt, reads |-> 0]

\* ConfigLoader.check_and_reload() over the timeline fs:
\*   fs[1] exists() l.43, fs[2] stat() l.46, fs[3..5] the three observations
\*   of load().  raised is what the caller sees; loadErr what load() raised
\*   inside the try ("-": load() was not called).
ConfigCheckAndReload(cfg, mt, fs) ==
    LET r == ConfigLoad(cfg, mt, fs[3], fs[4], fs[5])
    IN  IF ~fs[1].exists
        THEN [raised |-> "none", loadErr |-> "-", reloaded |-> FALSE, ret |-> cfg,
              config |-> cfg, last_mtime |-> mt, reads |-> 0]
        ELSE IF ~fs[2].exists
        THEN [raised |-> "FileNotFoundError", loadErr |-> "-", reloaded |-> FALSE,
              ret |-> NoDoc, config |-> cfg, last_mtime |-> mt, reads |-> 0]
        ELSE IF mt = NoMtime \/ fs[2].mtime > mt
        THEN IF r.err = "none"
             THEN [raised |-> "none", loadErr |-> "none", reloaded |-> TRUE,
                   ret |-> r.ret, config |-> r.config, last_mtime |-> r.last_mtime,
                   reads |-> r.reads]
             ELSE [raised |-> "none", loadErr |-> r.err, reloaded |-> FALSE,
                   ret |-> r.config, config |-> r.config, last_mtime |-> r.last_mtime,
                   reads |-> r.reads]
        ELSE [raised |-> "none", loadErr |-> "-", reloaded |-> FALSE, ret |-> cfg,
              config |-> cfg, last_mtime |-> mt, reads |-> 0]

\* ConfigLoader.get_config() over the timeline fs of the load() it may make.
ConfigGetConfig(cfg, mt, fs) ==
    LET r == ConfigLoad(cfg, mt, fs[1], fs[2], fs[3])
    IN  IF cfg = NoDoc
        THEN [raised |-> r.err, loadErr |-> r.err, reloaded |-> FALSE,
              ret |-> IF r.err = "none" THEN r.config ELSE NoDoc,
              config |-> r.config, last_mtime |-> r.last_mtime, reads |-> r.reads]
        ELSE [raised |-> "none", loadErr |-> "-", reloaded |-> FALSE, ret |-> cfg,
              config |-> cfg, last_mtime |-> mt, reads |-> 0]

\* ------------------------------------------------------------------ templates

\* Texts a template file may hold.
\*   T1    {{ config.system_prompt }}
\*   T2    a fixed preamble followed by {{ user_input }}
\*   TBad  text the template engine rejects (TemplateSyntaxError)
TplBodies == {"T1", "T2", "TBad"}

TplFiles == FilesOf(TplBodies)

NoTemplate == [kind |-> "none", src |-> "-"]

\* Environment.get_template on the file as it is when the engine reads it:
\* the exception it raises ("none": tpl is the compiled template).
GetTemplate(f) ==
    IF ~f.exists THEN [err |-> "TemplateNotFound", tpl |-> NoTemplate]
    ELSE IF f.body = "TBad" THEN [err |-> "TemplateSyntaxError", tpl |-> NoTemplate]
    ELSE [err |-> "none", tpl |-> [kind |-> "template", src |-> f.body]]

\* ------------------------------------------------------------------ PromptBuilder

\* PromptBuilder.load() on a slot holding (tpl, mt): exists() sees fExists,
\* get_template reads fRead, stat() sees fStat.
PromptLoad(tpl, mt, fExists, fRead, fStat) ==
    LET keep(e, n) == [err |-> e, template |-> tpl, last_mtime |-> mt,
                       ret |-> NoTemplate, reads |-> n]
        g == GetTemplate(fRead)
    IN  IF ~fExists.exists THEN keep("FileNotFoundError", 0)
        ELSE IF ~fRead.exists THEN keep(g.err, 0)
        ELSE IF g.err # "none" THEN keep(g.err, 1)
        ELSE IF ~fStat.exists
             THEN [err |-> "FileNotFoundError", template |-> g.tpl, last_mtime |-> mt,
                   ret |-> NoTemplate, reads |-> 1]
             ELSE [err |-> "none", template |-> g.tpl, last_mtime |-> fStat.mtime,
                   ret |-> g.tpl, reads |-> 1]

\* PromptBuilder.check_and_reload() over the timeline fs:
\*   fs[1] exists() l.39, fs[2] stat() l.42, fs[3..5] the observations of load().
PromptCheckAndReload(tpl, mt, fs) ==
    LET r == PromptLoad(tpl, mt, fs[3], fs[4], fs[5])
    IN  IF ~fs[1].exists
        THEN [raised |-> "none", loadErr |-> "-", reloaded |-> FALSE, ret |-> tpl,
              template |-> tpl, last_mtime |-> mt, reads |-> 0]
        ELSE IF ~fs[2].exists
        THEN [raised |-> "FileNotFoundError", loadErr |-> "-", reloaded |-> FALSE,
              ret |-> NoTemplate, template |-> tpl, last_mtime |-> mt, reads |-> 0]
        ELSE IF mt = NoMtime \/ fs[2].mtime > mt
        THEN IF r.err = "none"
             THEN [raised |-> "none", loadErr |-> "none", reloaded |-> TRUE,
                   ret |-> r.ret, template |-> r.template,
                   last_mtime |-> r.last_mtime, reads |-> r.reads]
             ELSE [raised |-> "none", loadErr |-> r.err, reloaded |-> FALSE,
                   ret |-> r.template, template |-> r.template,
                   last_mtime |-> r.last_mtime, reads |-> r.reads]
        ELSE [raised |-> "none", loadErr |-> "-", reloaded |-> FALSE, ret |-> tpl,
              template |-> tpl, last_mtime |-> mt, reads |-> 0]

\* Template.render(user_input=u, config=cfg): the text a compiled template
\* produces.  An undefined config.system_prompt renders as the empty text.
Render(tpl, u, cfg) ==
    IF tpl.src = "T1"
    THEN IF "system_prompt" \in DOMAIN cfg.map THEN cfg.map["system_prompt"] ELSE ""
    ELSE "Be brief. " \o u

\* PromptBuilder.render(): loads the primary template first if none is
\* cached; fs are the three observations of that load(), loads how often
\* load() was called.
PromptRender(tpl, mt, fs, u, cfg) ==
    LET r == PromptLoad(tpl, mt, fs[1], fs[2], fs[3])
    IN  IF tpl # NoTemplate
        THEN [err |-> "none", out |-> Render(tpl, u, cfg), template |-> tpl,
              last_mtime |-> mt, loads |-> 0]
        ELSE IF r.err # "none"
        THEN [err |-> r.err, out |-> "", template |-> r.template,
              last_mtime |-> r.last_mtime, loads |-> 1]
        ELSE [err |-> "none", out |-> Render(r.template, u, cfg),
              template |-> r.template, last_mtime |-> r.last_mtime, loads |-> 1]

\* PromptBuilder.load_user_template(): None when the file is absent.
LoadUserTemplate(ut, umt, fExists, fRead, fStat) ==
    LET g == GetTemplate(fRead)
    IN  IF ~fExists.exists
        THEN [err |-> "none", user_template |-> ut, user_last_mtime |-> umt]
        ELSE IF g.err # "none"
        THEN [err |-> g.err, user_template |-> ut, user_last_mtime |-> umt]
        ELSE IF ~fStat.exists
        THEN [err |-> "FileNotFoundError", user_template |-> g.tpl,
              user_last_mtime |-> umt]
        ELSE [err |-> "none", user_template |-> g.tpl,
              user_last_mtime |-> fStat.mtime]

\* check_and_reload_user_template() that drops the cached user template
\* when the file is gone.
CheckAndReloadUserTemplate_DropsMissing(ut, umt, fs) ==
    LET r == LoadUserTemplate(ut, umt, fs[3], fs[4], fs[5])
    IN  IF ~fs[1].exists
        THEN [raised |-> "none", reloaded |-> FALSE, user_template |-> NoTemplate,
              user_last_mtime |-> NoMtime]
        ELSE IF ~fs[2].exists
        THEN [raised |-> "FileNotFoundError", reloaded |-> FALSE,
              user_template |-> ut, user_last_mtime |-> umt]
        ELSE IF umt = NoMtime \/ fs[2].mtime > umt
        THEN [raised |-> "none", reloaded |-> (r.err = "none"),
              user_template |-> r.user_template,
              user_last_mtime |-> r.user_last_mtime]
        ELSE [raised |-> "none", reloaded |-> FALSE, user_template |-> ut,
              user_last_mtime |-> umt]

\* PromptBuilder.check_and_reload_user_template() over the timeline fs:
\*   fs[1] exists() l.87, fs[2] stat() l.90, fs[3..5] load_user_template().
CheckAndReloadUserTemplate(ut, umt, fs) ==
    LET r == LoadUserTemplate(ut, umt, fs[3], fs[4], fs[5])
    IN  IF ~fs[1].exists
        THEN [raised |-> "none", reloaded |-> FALSE, user_template |-> ut,
              user_last_mtime |-> umt]
        ELSE IF ~fs[2].exists
        THEN [raised |-> "FileNotFoundError", reloaded |-> FALSE,
              user_template |-> ut, user_last_mtime |-> umt]
        ELSE IF umt = NoMtime \/ fs[2].mtime > umt
        THEN [raised |-> "none", reloaded |-> (r.err = "none"),
              user_template |-> r.user_template,
              user_last_mtime |-> r.user_last_mtime]
        ELSE [raised |-> "none", reloaded |-> FALSE, user_template |-> ut,
              user_last_mtime |-> umt]

\* render_user() that renders nothing when there is no user template.
RenderUser_NoFallback(ut, umt, fs, u, cfg) ==
    LET c == CheckAndReloadUserTemplate(ut, umt, fs)
        l == LoadUserTemplate(c.user_template, c.user_last_mtime, fs[6], fs[7], fs[8])
    IN  IF c.raised # "none"
        THEN [err |-> c.raised, out |-> "", user_template |-> c.user_template,
              user_last_mtime |-> c.user_last_mtime]
        ELSE IF c.user_template # NoTemplate
        THEN [err |-> "none", out |-> Render(c.user_template, u, cfg),
              user_template |-> c.user_template,
              user_last_mtime |-> c.user_last_mtime]
        ELSE IF l.err # "none"
        THEN [err |-> l.err, out |-> "", user_template |-> l.user_template,
              user_last_mtime |-> l.user_last_mtime]
        ELSE [err |-> "none",
              out |-> IF l.user_template = NoTemplate THEN ""
                      ELSE Render(l.user_template, u, cfg),
              user_template |-> l.user_template,
              user_last_mtime |-> l.user_last_mtime]

\* PromptBuilder.render_user() over the timeline fs: fs[1..5] the change
\* check, fs[6..8] the load_user_template() made when no template is cached.
RenderUser(ut, umt, fs, u, cfg) ==
    LET c == CheckAndReloadUserTemplate(ut, umt, fs)
        l == LoadUserTemplate(c.user_template, c.user_last_mtime, fs[6], fs[7], fs[8])
    IN  IF c.raised # "none"
        THEN [err |-> c.raised, out |-> "", user_template |-> c.user_template,
              user_last_mtime |-> c.user_last_mtime]
        ELSE IF c.user_template # NoTemplate
        THEN [err |-> "none", out |-> Render(c.user_template, u, cfg),
              user_template |-> c.user_template,
              user_last_mtime |-> c.user_last_mtime]
        ELSE IF l.err # "none"
        THEN [err |-> l.err, out |-> "", user_template |-> l.user_template,
              user_last_mtime |-> l.user_last_mtime]
        ELSE [err |-> "none",
              out |-> IF l.user_template = NoTemplate THEN u
                      ELSE Render(l.user_template, u, cfg),
              user_template |-> l.user_template,
              user_last_mtime |-> l.user_last_mtime]

\* ------------------------------------------------------------------ SessionMemory

\* SessionMemory.sessions is a dict: a function whose domain is the set of
\* registered session ids; each value is the owner's message list.

\* SessionMemory.get_session: registers an empty log for a new id.
GetSession(ss, sid) ==
    IF sid \in DOMAIN ss THEN ss ELSE (sid :> <<>>) @@ ss

\* add_message that drops a record equal to the last one stored.
AddMessage_NoRepeat(ss, sid, msg) ==
    IF ss[sid] # <<>> /\ ss[sid][Len(ss[sid])] = msg
    THEN ss
    ELSE [ss EXCEPT ![sid] = Append(@, msg)]

\* InMemoryChatHistory.add_message on the log of a registered session.
AddMessage(ss, sid, msg) == [ss EXCEPT ![sid] = Append(@, msg)]

\* clear_session that empties every registered session.
ClearSession_All(ss, sid) ==
    IF sid \in DOMAIN ss THEN [k \in DOMAIN ss |-> <<>>] ELSE ss

\* SessionMemory.clear_session
ClearSession(ss, sid) ==
    IF sid \in DOMAIN ss THEN [ss EXCEPT ![sid] = <<>>] ELSE ss

\* SessionMemory.delete_session
DeleteSession(ss, sid) == [k \in DOMAIN ss \ {sid} |-> ss[k]]

SystemMessage(c) == [type |-> "system", content |-> c]
HumanMessage(c) == [type |-> "human", content |-> c]
AIMessage(c) == [type |-> "ai", content |-> c]

\* ------------------------------------------------------------------ SessionMemory, with owners

\* The same operations on the objects themselves.  A log owner
\* (InMemoryChatHistory) is known by a number; registry is
\* SessionMemory.sessions (session id -> owner), logs the message list of
\* every owner created so far, next the number the next owner will get.

NoOwner == 0

\* get_session that registers a new owner on every call.
MemGetSession_AlwaysNew(registry, logs, next, session_id) ==
    [owner |-> next, created |-> TRUE,
     registry |-> (session_id :> next) @@ registry,
     logs |-> (next :> <<>>) @@ logs, next |-> next + 1]

\* SessionMemory.get_session(session_id): the owner returned.
MemGetSession(registry, logs, next, session_id) ==
    IF session_id \in DOMAIN registry
    THEN [owner |-> registry[session_id], created |-> FALSE,
          registry |-> registry, logs |-> logs, next |-> next]
    ELSE [owner |-> next, created |-> TRUE,
          registry |-> (session_id :> next) @@ registry,
          logs |-> (next :> <<>>) @@ logs, next |-> next + 1]

\* clear_session that registers the session it is asked to clear.
MemClearSession_Registers(registry, logs, next, session_id) ==
    IF session_id \in DOMAIN registry
    THEN [registry |-> registry,
          logs |-> [logs EXCEPT ![registry[session_id]] = <<>>], next |-> next]
    ELSE [registry |-> (session_id :> next) @@ registry,
          logs |-> (next :> <<>>) @@ logs, next |-> next + 1]

\* SessionMemory.clear_session(session_id): the owner's clear() gives it a
\* new empty list; the owner stays registered.
MemClearSession(registry, logs, next, session_id) ==
    IF session_id \in DOMAIN registry
    THEN [registry |-> registry,
          logs |-> [logs EXCEPT ![registry[session_id]] = <<>>], next |-> next]
    ELSE [registry |-> registry, logs |-> logs, next |-> next]

\* SessionMemory.delete_session(session_id): the owner is unregistered; a
\* caller that holds it can still use it.
MemDeleteSession(registry, logs, next, session_id) ==
    [registry |-> [k \in DOMAIN registry \ {session_id} |-> registry[k]],
     logs |-> logs, next |-> next]

\* A value handed to a caller, with what it shares with the stored log of
\* owner `of`: list is "shared" if it is the stored list itself, elems is
\* "shared" if its elements are the stored message objects.
NoValue == [of |-> NoOwner, value |-> <<>>, list |-> "-", elems |-> "-"]

\* get_history that hands out the owner's message list itself.
MemGetHistory_Alias(registry, logs, next, session_id) ==
    LET g == MemGetSession(registry, logs, next, session_id)
    IN  [ret |-> [of |-> g.owner, value |-> g.logs[g.owner],
                  list |-> "shared", elems |-> "shared"],
         registry |-> g.registry, logs |-> g.logs, next |-> g.next]

\* LLMService.get_history(session_id): a list comprehension of dict
\* literals over the owner's messages - a new list of new dicts.
MemGetHistory(registry, logs, next, session_id) ==
    LET g == MemGetSession(registry, logs, next, session_id)
    IN  [ret |-> [of |-> g.owner,
                  value |-> [i \in 1..Len(g.logs[g.owner]) |->
                               [type |-> g.logs[g.owner][i].type,
                                content |-> g.logs[g.owner][i].content]],
                  list |-> "fresh", elems |-> "fresh"],
         registry |-> g.registry, logs |-> g.logs, next |-> g.next]

\* What a caller may do to a sequence it was handed.
Mutations == {"append", "pop", "edit"}

\* The sequence seq after the caller's change k.
Mutated(seq, k) ==
    CASE k = "append" -> Append(seq, [type |-> "human", content |-> "X"])
      [] k = "pop" -> IF seq = <<>> THEN seq ELSE SubSeq(seq, 1, Len(seq) - 1)
      [] OTHER -> IF seq = <<>> THEN seq ELSE [seq EXCEPT ![1].content = "X"]

\* The stored logs after the caller has changed the value v it holds:
\* a change of the list reaches the stored list only if v is that list, a
\* change of an element only if the elements are the stored objects.
LogsAfterMutation(logs, v, k) ==
    IF (k \in {"append", "pop"} /\ v.list = "shared")
       \/ (k = "edit" /\ v.elems = "shared")
    THEN [logs EXCEPT ![v.of] = Mutated(@, k)]
    ELSE logs

\* ------------------------------------------------------------------ LLMService

\* The one element of a singleton set: names the result of a call once.
Pick(S) == CHOOSE x \in S : TRUE

\* The timeline of a call during which nobody changes the file f.
Still(f, n) == [i \in 1..n |-> f]

\* The operations below take the objects an LLMService works on as one
\* record st: the fields of its ConfigLoader, PromptBuilder and
\* SessionMemory, and the three files (cf configuration, tf primary
\* template, uf user template).

\* `if system_prompt:` on config.get("system_prompt", "")
SystemPromptSet(doc) ==
    "system_prompt" \in DOMAIN doc.map /\ doc.map["system_prompt"] # ""

\* What build_messages prints when it prints nothing.
NoTree == [printed |-> FALSE, system |-> <<>>, count |-> 0, shown |-> <<>>,
           more |-> 0, input |-> "", total |-> 0]

\* The last three entries of a sequence.
LastThree(h) == IF Len(h) <= 3 THEN h ELSE SubSeq(h, Len(h) - 2, Len(h))

\* The tree build_messages prints on the console when DEBUG is enabled for
\* its logger: the configured system prompt and the length of its
\* rendering, the number of stored messages and the kind and text of the
\* last three, how many more there are, the input, and the length of the
\* sequence built.  (The texts here are shorter than the 100 and 50
\* characters the tree cuts them to.)
BuildTree(cfg, h, user_input, messages) ==
    [printed |-> TRUE,
     system |-> IF SystemPromptSet(cfg)
                THEN <<cfg.map["system_prompt"], Len(messages[1].content)>>
                ELSE <<>>,
     count |-> Len(h),
     shown |-> [i \in 1..Len(LastThree(h)) |->
                  [kind |-> IF LastThree(h)[i].type = "human" THEN "Human" ELSE "AI",
                   preview |-> LastThree(h)[i].content]],
     more |-> IF Len(h) > 3 THEN Len(h) - 3 ELSE 0,
     input |-> user_input,
     total |-> Len(messages)]

\* The texts from configuration, history and input that the tree's labels
\* carry as they are.
TreeTexts(cfg, h, user_input) ==
    (IF SystemPromptSet(cfg) THEN {cfg.map["system_prompt"]} ELSE {})
    \cup {LastThree(h)[i].content : i \in 1..Len(LastThree(h))}
    \cup {user_input}

\* A result of build_messages with what the call printed on its way: the
\* tree if debug (the logger is enabled for DEBUG), nothing otherwise.
\* console.print(build_tree) (l.175) renders the labels as markup; if it
\* raises (as on "[/b]", a closing tag with no opening tag before it),
\* build_messages raises, after get_session has run.
WithConsole(debug, cfg, h, user_input, res) ==
    IF debug /\ "[/b]" \in TreeTexts(cfg, h, user_input)
    THEN [err |-> "MarkupError", messages |-> <<>>, console |-> NoTree,
          st |-> res.st]
    ELSE [err |-> res.err, messages |-> res.messages,
          console |-> IF debug THEN BuildTree(cfg, h, user_input, res.messages)
                      ELSE NoTree,
          st |-> res.st]

\* build_messages that puts the current input before the history.
BuildMessages_InputFirst(st, user_input, session_id) ==
    Pick({ Pick({
        LET ss == GetSession(st.sessions, session_id)
            st1 == [st EXCEPT !.config = g.config,
                              !.config_last_mtime = g.last_mtime]
            st2 == [st1 EXCEPT !.template = r.template,
                               !.template_last_mtime = r.last_mtime]
        IN  IF g.raised # "none"
            THEN [err |-> g.raised, messages |-> <<>>, console |-> NoTree, st |-> st1]
            ELSE IF SystemPromptSet(g.config)
            THEN IF r.err # "none"
                 THEN [err |-> r.err, messages |-> <<>>, console |-> NoTree,
                       st |-> st2]
                 ELSE WithConsole(st.debug, g.config, ss[session_id], user_input,
                      [err |-> "none",
                       messages |-> <<SystemMessage(r.out)>>
                                    \o <<HumanMessage(user_input)>>
                                    \o ss[session_id],
                       st |-> [st2 EXCEPT !.sessions = ss]])
            ELSE WithConsole(st.debug, g.config, ss[session_id], user_input,
                 [err |-> "none",
                  messages |-> <<HumanMessage(user_input)>> \o ss[session_id],
                  st |-> [st1 EXCEPT !.sessions = ss]])
        : r \in {PromptRender(st.template, st.template_last_mtime, Still(st.tf, 3),
                              user_input, g.config)} })
      : g \in {ConfigGetConfig(st.config, st.config_last_mtime, Still(st.cf, 3))} })

\* build_messages that adds a system message whenever the key is present.
BuildMessages_KeyPresent(st, user_input, session_id) ==
    Pick({ Pick({
        LET ss == GetSession(st.sessions, session_id)
            st1 == [st EXCEPT !.config = g.config,
                              !.config_last_mtime = g.last_mtime]
            st2 == [st1 EXCEPT !.template = r.template,
                               !.template_last_mtime = r.last_mtime]
        IN  IF g.raised # "none"
            THEN [err |-> g.raised, messages |-> <<>>, console |-> NoTree, st |-> st1]
            ELSE IF "system_prompt" \in DOMAIN g.config.map
            THEN IF r.err # "none"
                 THEN [err |-> r.err, messages |-> <<>>, console |-> NoTree,
                       st |-> st2]
                 ELSE WithConsole(st.debug, g.config, ss[session_id], user_input,
                      [err |-> "none",
                       messages |-> <<SystemMessage(r.out)>> \o ss[session_id]
                                    \o <<HumanMessage(user_input)>>,
                       st |-> [st2 EXCEPT !.sessions = ss]])
            ELSE WithConsole(st.debug, g.config, ss[session_id], user_input,
                 [err |-> "none",
                  messages |-> ss[session_id] \o <<HumanMessage(user_input)>>,
                  st |-> [st1 EXCEPT !.sessions = ss]])
        : r \in {PromptRender(st.template, st.template_last_mtime, Still(st.tf, 3),
                              user_input, g.config)} })
      : g \in {ConfigGetConfig(st.config, st.config_last_mtime, Still(st.cf, 3))} })

\* LLMService.build_messages(user_input, session_id) on the state st.
\* g is the get_config() call of l.130, r the render() call of l.180.
BuildMessages(st, user_input, session_id) ==
    Pick({ Pick({
        LET ss == GetSession(st.sessions, session_id)
            st1 == [st EXCEPT !.config = g.config,
                              !.config_last_mtime = g.last_mtime]
            st2 == [st1 EXCEPT !.template = r.template,
                               !.template_last_mtime = r.last_mtime]
        IN  IF g.raised # "none"
            THEN [err |-> g.raised, messages |-> <<>>, console |-> NoTree, st |-> st1]
            ELSE IF SystemPromptSet(g.config)
            THEN IF r.err # "none"
                 THEN [err |-> r.err, messages |-> <<>>, console |-> NoTree,
                       st |-> st2]
                 ELSE WithConsole(st.debug, g.config, ss[session_id], user_input,
                      [err |-> "none",
                       messages |-> <<SystemMessage(r.out)>> \o ss[session_id]
                                    \o <<HumanMessage(user_input)>>,
                       st |-> [st2 EXCEPT !.sessions = ss]])
            ELSE WithConsole(st.debug, g.config, ss[session_id], user_input,
                 [err |-> "none",
                  messages |-> ss[session_id] \o <<HumanMessage(user_input)>>,
                  st |-> [st1 EXCEPT !.sessions = ss]])
        : r \in {PromptRender(st.template, st.template_last_mtime, Still(st.tf, 3),
                              user_input, g.config)} })
      : g \in {ConfigGetConfig(st.config, st.config_last_mtime, Still(st.cf, 3))} })

skip_keys == {"system_prompt", "model"}

\* build_api_params that forwards the model among the call parameters too.
BuildApiParams_ForwardsModel(doc) ==
    [model |-> doc.map["model"],
     kwargs |-> [k \in DOMAIN doc.map \ {"system_prompt"} |-> doc.map[k]]]

\* LLMService.build_api_params() on a loaded configuration.
BuildApiParams(doc) ==
    [model |-> doc.map["model"],
     kwargs |-> [k \in DOMAIN doc.map \ skip_keys |-> doc.map[k]]]

\* send_message's transport calls if the first one is made again.
ChatCompletion_Again(model, messages, kwargs) ==
    <<[model |-> model, messages |-> messages, kwargs |-> kwargs],
      [model |-> model, messages |-> messages, kwargs |-> kwargs]>>

\* self.client.chat_completion(model=model, messages=messages, **kwargs):
\* the calls send_message makes to the transport, with their arguments.
ChatCompletion(model, messages, kwargs) ==
    <<[model |-> model, messages |-> messages, kwargs |-> kwargs]>>

\* LLMService._messages_to_dict
MessagesToDict(messages) ==
    Pick({ [i \in 1..Len(ms) |->
              [role |-> CASE ms[i].type = "system" -> "system"
                          [] ms[i].type = "human" -> "user"
                          [] OTHER -> "assistant",
               content |-> ms[i].content]]
           : ms \in {messages} })

NoLog == [mode |-> "-", messages |-> <<>>]

\* send_message that stores the human message before it calls the transport.
SendMessage_PersistFirst(st, user_input, session_id, log_full_history, answer) ==
    Pick({ Pick({
        LET cfg == b.st.config
            params == BuildApiParams(cfg)
            \* l.271: the system prompt rendered again, from the cached template
            rs == Render(b.st.template, user_input, cfg)
            st3 == [b.st EXCEPT !.user_template = ru.user_template,
                                !.user_last_mtime = ru.user_last_mtime]
            stL == IF log_full_history THEN b.st ELSE st3
            logged == IF log_full_history
                      THEN [mode |-> "full", messages |-> MessagesToDict(b.messages)]
                      ELSE [mode |-> "current",
                            messages |-> MessagesToDict(
                                (IF SystemPromptSet(cfg) THEN <<SystemMessage(rs)>>
                                 ELSE <<>>) \o <<HumanMessage(ru.out)>>)]
            calls == ChatCompletion(params.model, b.messages, params.kwargs)
            fail(e, s, built, lg, sent) ==
                [err |-> e, response |-> "", built |-> built,
                 messages |-> IF built THEN b.messages ELSE <<>>,
                 model |-> IF built THEN params.model ELSE "",
                 kwargs |-> IF built THEN params.kwargs ELSE EmptyMap,
                 logged |-> lg, dispatched |-> Len(sent), calls |-> sent,
                 console |-> b.console, st |-> s]
        IN  IF b.err # "none" THEN fail(b.err, b.st, FALSE, NoLog, <<>>)
            ELSE IF ~log_full_history /\ ru.err # "none"
            THEN fail(ru.err, st3, TRUE, NoLog, <<>>)
            ELSE IF answer = "raise"
            THEN fail("TransportError",
                      [stL EXCEPT !.sessions =
                          AddMessage(stL.sessions, session_id,
                                     HumanMessage(user_input))],
                      TRUE, logged, calls)
            ELSE [err |-> "none", response |-> answer, built |-> TRUE,
                  messages |-> b.messages, model |-> params.model,
                  kwargs |-> params.kwargs, logged |-> logged,
                  dispatched |-> Len(calls), calls |-> calls,
                  console |-> b.console,
                  st |-> [stL EXCEPT !.sessions =
                             AddMessage(AddMessage(stL.sessions, session_id,
                                                   HumanMessage(user_input)),
                                        session_id, AIMessage(answer))]]
        : ru \in {RenderUser(b.st.user_template, b.st.user_last_mtime,
                             Still(b.st.uf, 8), user_input, b.st.config)} })
      : b \in {BuildMessages(st, user_input, session_id)} })

\* send_message that stores the reply before the human message.
SendMessage_AnswerFirst(st, user_input, session_id, log_full_history, answer) ==
    Pick({ Pick({
        LET cfg == b.st.config
            params == BuildApiParams(cfg)
            \* l.271: the system prompt rendered again, from the cached template
            rs == Render(b.st.template, user_input, cfg)
            st3 == [b.st EXCEPT !.user_template = ru.user_template,
                                !.user_last_mtime = ru.user_last_mtime]
            stL == IF log_full_history THEN b.st ELSE st3
            logged == IF log_full_history
                      THEN [mode |-> "full", messages |-> MessagesToDict(b.messages)]
                      ELSE [mode |-> "current",
                            messages |-> MessagesToDict(
                                (IF SystemPromptSet(cfg) THEN <<SystemMessage(rs)>>
                                 ELSE <<>>) \o <<HumanMessage(ru.out)>>)]
            calls == ChatCompletion(params.model, b.messages, params.kwargs)
            fail(e, s, built, lg, sent) ==
                [err |-> e, response |-> "", built |-> built,
                 messages |-> IF built THEN b.messages ELSE <<>>,
                 model |-> IF built THEN params.model ELSE "",
                 kwargs |-> IF built THEN params.kwargs ELSE EmptyMap,
                 logged |-> lg, dispatched |-> Len(sent), calls |-> sent,
                 console |-> b.console, st |-> s]
        IN  IF b.err # "none" THEN fail(b.err, b.st, FALSE, NoLog, <<>>)
            ELSE IF ~log_full_history /\ ru.err # "none"
            THEN fail(ru.err, st3, TRUE, NoLog, <<>>)
            ELSE IF answer = "raise"
            THEN fail("TransportError", stL, TRUE, logged, calls)
            ELSE [err |-> "none", response |-> answer, built |-> TRUE,
                  messages |-> b.messages, model |-> params.model,
                  kwargs |-> params.kwargs, logged |-> logged,
                  dispatched |-> Len(calls), calls |-> calls,
                  console |-> b.console,
                  st |-> [stL EXCEPT !.sessions =
                             AddMessage(AddMessage(stL.sessions, session_id,
                                                   AIMessage(answer)),
                                        session_id, HumanMessage(user_input))]]
        : ru \in {RenderUser(b.st.user_template, b.st.user_last_mtime,
                             Still(b.st.uf, 8), user_input, b.st.config)} })
      : b \in {BuildMessages(st, user_input, session_id)} })

\* LLMService.send_message(user_input, session_id, log_full_history) on the
\* state st; answer is what the transport does when it is called: "raise",
\* or the reply text.  b is the build_messages() call of l.247, ru the
\* render_user() call of l.278 (made in current-turn mode only).
SendMessage(st, user_input, session_id, log_full_history, answer) ==
    Pick({ Pick({
        LET cfg == b.st.config
            params == BuildApiParams(cfg)
            \* l.271: the system prompt rendered again, from the cached template
            rs == Render(b.st.template, user_input, cfg)
            st3 == [b.st EXCEPT !.user_template = ru.user_template,
                                !.user_last_mtime = ru.user_last_mtime]
            stL == IF log_full_history THEN b.st ELSE st3
            logged == IF log_full_history
                      THEN [mode |-> "full", messages |-> MessagesToDict(b.messages)]
                      ELSE [mode |-> "current",
                            messages |-> MessagesToDict(
                                (IF SystemPromptSet(cfg) THEN <<SystemMessage(rs)>>
                                 ELSE <<>>) \o <<HumanMessage(ru.out)>>)]
            calls == ChatCompletion(params.model, b.messages, params.kwargs)
            fail(e, s, built, lg, sent) ==
                [err |-> e, response |-> "", built |-> built,
                 messages |-> IF built THEN b.messages ELSE <<>>,
                 model |-> IF built THEN params.model ELSE "",
                 kwargs |-> IF built THEN params.kwargs ELSE EmptyMap,
                 logged |-> lg, dispatched |-> Len(sent), calls |-> sent,
                 console |-> b.console, st |-> s]
        IN  IF b.err # "none" THEN fail(b.err, b.st, FALSE, NoLog, <<>>)
            ELSE IF ~log_full_history /\ ru.err # "none"
            THEN fail(ru.err, st3, TRUE, NoLog, <<>>)
            ELSE IF answer = "raise"
            THEN fail("TransportError", stL, TRUE, logged, calls)
            ELSE [err |-> "none", response |-> answer, built |-> TRUE,
                  messages |-> b.messages, model |-> params.model,
                  kwargs |-> params.kwargs, logged |-> logged,
                  dispatched |-> Len(calls), calls |-> calls,
                  console |-> b.console,
                  st |-> [stL EXCEPT !.sessions =
                             AddMessage(AddMessage(stL.sessions, session_id,
                                                   HumanMessage(user_input)),
                                        session_id, AIMessage(answer))]]
        : ru \in {RenderUser(b.st.user_template, b.st.user_last_mtime,
                             Still(b.st.uf, 8), user_input, b.st.config)} })
      : b \in {BuildMessages(st, user_input, session_id)} })

\* LLMService.get_history(session_id): the projection returned, and the
\* sessions afterwards (get_session registers a new id).
GetHistory(ss, session_id) ==
    LET s1 == GetSession(ss, session_id)
    IN  [history |-> [i \in 1..Len(s1[session_id]) |->
                        [type |-> s1[session_id][i].type,
                         content |-> s1[session_id][i].content]],
         sessions |-> s1]

\* LLMService.check_hot_reload() on the state st: cfs is the timeline of the
\* configuration check of l.109, tfs that of the template check of l.110.
\* An exception of the first check ends the call before the second is made.
\* The get_config() of l.113 runs on a cached document and loads nothing.
CheckHotReload(st, cfs, tfs) ==
    Pick({ Pick({
        LET st1 == [st EXCEPT !.config = c.config,
                              !.config_last_mtime = c.last_mtime]
            st2 == [st1 EXCEPT !.template = t.template,
                               !.template_last_mtime = t.last_mtime]
        IN  IF c.raised # "none"
            THEN [raised |-> c.raised, config_reloaded |-> FALSE,
                  template_reloaded |-> FALSE, st |-> st1]
            ELSE IF t.raised # "none"
            THEN [raised |-> t.raised, config_reloaded |-> FALSE,
                  template_reloaded |-> FALSE, st |-> st2]
            ELSE [raised |-> "none", config_reloaded |-> c.reloaded,
                  template_reloaded |-> t.reloaded, st |-> st2]
        : t \in {PromptCheckAndReload(st.template, st.template_last_mtime, tfs)} })
      : c \in {ConfigCheckAndReload(st.config, st.config_last_mtime, cfs)} })

\* ------------------------------------------------------------------ LogManager

\* The levels of the logging module that the /loglevel command accepts.
DEBUG == 10
INFO == 20
WARNING == 30
ERROR == 40

Levels == {DEBUG, INFO, WARNING, ERROR}

\* logging.getLevelName
LevelName(l) ==
    CASE l = DEBUG -> "DEBUG"
      [] l = INFO -> "INFO"
      [] l = WARNING -> "WARNING"
      [] l = ERROR -> "ERROR"
      [] OTHER -> "Level"

\* LogManager.PRIMARY_COMPONENTS: default level and logger categories.
PRIMARY_COMPONENTS ==
    [prompt       |-> [default |-> INFO,    loggers |-> <<"app.prompt">>],
     http         |-> [default |-> WARNING, loggers |-> <<"openai", "httpx", "httpcore">>],
     langchain    |-> [default |-> WARNING, loggers |-> <<"langchain">>],
     orchestrator |-> [default |-> INFO,    loggers |-> <<"orchestrator">>],
     mcp          |-> [default |-> INFO,    loggers |-> <<"mcp">>]]

Components == DOMAIN PRIMARY_COMPONENTS

\* LogManager.NOISY_DEFAULTS
NOISY_DEFAULTS ==
    [asyncio |-> WARNING, urllib3 |-> WARNING, markdown_it |-> WARNING]
    @@ ("httpcore.connection" :> WARNING) @@ ("httpcore.http11" :> WARNING)

\* The logger categories of a component, as a set.
LoggersOf(c) ==
    { PRIMARY_COMPONENTS[c].loggers[i] : i \in 1..Len(PRIMARY_COMPONENTS[c].loggers) }

Categories == UNION { LoggersOf(c) : c \in Components }

\* The component a category belongs to.
ComponentOf(n) == CHOOSE c \in Components : n \in LoggersOf(c)

\* LogManager.__init__: the level of every logger it touches.  The root
\* logger's level is left as it is.
LogManagerInit ==
    [n \in Categories \cup DOMAIN NOISY_DEFAULTS |->
        IF n \in Categories THEN PRIMARY_COMPONENTS[ComponentOf(n)].default
        ELSE NOISY_DEFAULTS[n]]

\* str.capitalize on a component name.
Capitalize(c) ==
    CASE c = "prompt" -> "Prompt"
      [] c = "http" -> "Http"
      [] c = "langchain" -> "Langchain"
      [] c = "orchestrator" -> "Orchestrator"
      [] c = "mcp" -> "Mcp"
      [] OTHER -> c

\* The line set_level adds to its message when it has lowered the root.
RootAdjustedLine(level) == "(Root level auto-adjusted to " \o LevelName(level) \o ")"

\* set_level that lowers the root also when it already is at the level.
SetLevel_GE(root, levels, component, level) ==
    LET to_set == IF component = "all" THEN Components ELSE {component}
        root_adjusted == root >= level
        first == IF component = "all"
                 THEN "All components set to " \o LevelName(level)
                 ELSE Capitalize(component) \o " logs set to " \o LevelName(level)
    IN  IF component # "all" /\ component \notin Components
        THEN [ok |-> FALSE, msg |-> <<"Unknown component: " \o component>>,
              root |-> root, levels |-> levels]
        ELSE [ok |-> TRUE,
              msg |-> IF root_adjusted THEN <<first, RootAdjustedLine(level)>>
                      ELSE <<first>>,
              root |-> IF root_adjusted THEN level ELSE root,
              levels |-> [n \in DOMAIN levels |->
                            IF n \in Categories /\ ComponentOf(n) \in to_set
                            THEN level ELSE levels[n]]]

\* set_level that adjusts the root before it looks at the component name.
SetLevel_RootFirst(root, levels, component, level) ==
    LET to_set == IF component = "all" THEN Components ELSE {component}
        root_adjusted == root > level
        first == IF component = "all"
                 THEN "All components set to " \o LevelName(level)
                 ELSE Capitalize(component) \o " logs set to " \o LevelName(level)
    IN  IF component # "all" /\ component \notin Components
        THEN [ok |-> FALSE, msg |-> <<"Unknown component: " \o component>>,
              root |-> IF root_adjusted THEN level ELSE root, levels |-> levels]
        ELSE [ok |-> TRUE,
              msg |-> IF root_adjusted THEN <<first, RootAdjustedLine(level)>>
                      ELSE <<first>>,
              root |-> IF root_adjusted THEN level ELSE root,
              levels |-> [n \in DOMAIN levels |->
                            IF n \in Categories /\ ComponentOf(n) \in to_set
                            THEN level ELSE levels[n]]]

\* set_level that sets only the first logger of each component.
SetLevel_FirstOnly(root, levels, component, level) ==
    LET to_set == IF component = "all" THEN Components ELSE {component}
        root_adjusted == root > level
        first == IF component = "all"
                 THEN "All components set to " \o LevelName(level)
                 ELSE Capitalize(component) \o " logs set to " \o LevelName(level)
    IN  IF component # "all" /\ component \notin Components
        THEN [ok |-> FALSE, msg |-> <<"Unknown component: " \o component>>,
              root |-> root, levels |-> levels]
        ELSE [ok |-> TRUE,
              msg |-> IF root_adjusted THEN <<first, RootAdjustedLine(level)>>
                      ELSE <<first>>,
              root |-> IF root_adjusted THEN level ELSE root,
              levels |-> [n \in DOMAIN levels |->
                            IF /\ n \in Categories
                               /\ ComponentOf(n) \in to_set
                               /\ n = PRIMARY_COMPONENTS[ComponentOf(n)].loggers[1]
                            THEN level ELSE levels[n]]]

\* set_level that sets the root to the requested level, up or down.
SetLevel_RootFollows(root, levels, component, level) ==
    LET to_set == IF component = "all" THEN Components ELSE {component}
        root_adjusted == root # level
        first == IF component = "all"
                 THEN "All components set to " \o LevelName(level)
                 ELSE Capitalize(component) \o " logs set to " \o LevelName(level)
    IN  IF component # "all" /\ component \notin Components
        THEN [ok |-> FALSE, msg |-> <<"Unknown component: " \o component>>,
              root |-> root, levels |-> levels]
        ELSE [ok |-> TRUE,
              msg |-> IF root_adjusted THEN <<first, RootAdjustedLine(level)>>
                      ELSE <<first>>,
              root |-> level,
              levels |-> [n \in DOMAIN levels |->
                            IF n \in Categories /\ ComponentOf(n) \in to_set
                            THEN level ELSE levels[n]]]

\* LogManager.set_level(component, level) on root level root and logger
\* levels levels: (success, message) and the levels afterwards.  The message
\* is the sequence of its lines.
SetLevel(root, levels, component, level) ==
    LET to_set == IF component = "all" THEN Components ELSE {component}
        root_adjusted == root > level
        first == IF component = "all"
                 THEN "All components set to " \o LevelName(level)
                 ELSE Capitalize(component) \o " logs set to " \o LevelName(level)
    IN  IF component # "all" /\ component \notin Components
        THEN [ok |-> FALSE, msg |-> <<"Unknown component: " \o component>>,
              root |-> root, levels |-> levels]
        ELSE [ok |-> TRUE,
              msg |-> IF root_adjusted THEN <<first, RootAdjustedLine(level)>>
                      ELSE <<first>>,
              root |-> IF root_adjusted THEN level ELSE root,
              levels |-> [n \in DOMAIN levels |->
                            IF n \in Categories /\ ComponentOf(n) \in to_set
                            THEN level ELSE levels[n]]]

\* LogManager.get_status(): the root's level name and, per component, the
\* level name of its first logger.
GetStatus(root, levels) ==
    [root |-> LevelName(root),
     components |-> [c \in Components |->
                       LevelName(levels[PRIMARY_COMPONENTS[c].loggers[1]])]]

\* ------------------------------------------------------------------ state

VARIABLES
    configFile,           \* the configuration file on disk
    config,               \* ConfigLoader.config (NoDoc: None)
    config_last_mtime,    \* ConfigLoader.last_mtime (NoMtime: None)
    lastGood,             \* history: what the most recent load() that returned, returned
    templateFile,         \* the primary template file on disk
    template,             \* PromptBuilder.template (NoTemplate: None)
    template_last_mtime,  \* PromptBuilder.last_mtime
    userTemplateFile,     \* the user template file on disk (user_prompt.jinja)
    user_template,        \* PromptBuilder.user_template
    user_last_mtime,      \* PromptBuilder.user_last_mtime
    sessions,             \* SessionMemory.sessions
    pending,              \* history: error of a reload that came to nothing and has
                          \* not been followed by a successful load ("none": no such)
    focus,                \* the object the run drives
    last,                 \* history: the watcher call that completed last
    turn,                 \* history: the LLMService call that completed last
    root_level,           \* the root logger's level
    logger_levels,        \* the level of every logger LogManager has set
    logCall,              \* history: the LogManager call that completed last
    registry,             \* SessionMemory.sessions as objects: session id -> owner
    logs,                 \* the message list of every owner created
    nextOwner,            \* the number of the next owner
    held,                 \* what the caller holds: an owner, a get_history result
    memCall,              \* history: the SessionMemory call that completed last
    stream                \* the generator stream_message returned, as far as it has run

vars == <<configFile, config, config_last_mtime, lastGood,
          templateFile, template, template_last_mtime,
          userTemplateFile, user_template, user_last_mtime, sessions,
          pending, focus, last, turn, root_level, logger_levels, logCall,
          registry, logs, nextOwner, held, memCall, stream>>

configVars == <<configFile, config, config_last_mtime, lastGood>>
promptVars == <<templateFile, template, template_last_mtime>>
serviceVars == <<userTemplateFile, user_template, user_last_mtime, sessions, turn>>
watchHistory == <<lastGood, pending, last>>
logVars == <<root_level, logger_levels, logCall>>
memVars == <<registry, logs, nextOwner, held, memCall>>

\* SessionMemory(): no session registered.
NoSessions == [k \in {} |-> <<>>]

\* No SessionMemory call yet.
\*   owner    the owner get_session returned / the call acted on
NoMemCall == [op |-> "-", session_id |-> "-", owner |-> NoOwner]

\* The caller holds nothing.
\*   owner    the owner its last get_session returned, for session id sid
\*   deleted  delete_session(sid) was called since
\*   history  the result of its last get_history
NoneHeld == [owner |-> NoOwner, sid |-> "-", deleted |-> FALSE, history |-> NoValue]

\* No generator: stream_message was not called.
\*   state     "created": no statement of its body has run; "suspended": at
\*             the yield of l.122; "returned", "raised", "closed": finished
\*   chunks    the list `chunks` of l.119
NoStream == [state |-> "none", user_input |-> "-", session_id |-> "-",
             log_full_history |-> FALSE, chunks |-> <<>>]

\* The owner-level view of an unused SessionMemory.
MemAtRest ==
    /\ registry = NoSessions
    /\ logs = NoSessions
    /\ nextOwner = 1
    /\ held = NoneHeld
    /\ memCall = NoMemCall

\* No LogManager call yet.
\*   ok, msg      the (success, message) set_level returned
\*   root_before  the root level when the call began
\*   status       what get_status returned
NoLogCall == [op |-> "-", component |-> "-", level |-> 0, ok |-> FALSE,
              msg |-> <<>>, root_before |-> 0, status |-> <<>>]

\* A LogManager constructed over the root logger as the logging module
\* creates it, and not used.
LogAtRest ==
    /\ root_level = WARNING
    /\ logger_levels = LogManagerInit
    /\ logCall = NoLogCall

\* process_user_input returned nothing.
NoInfo == [original |-> <<>>, processed |-> <<>>, type |-> "-", valid |-> FALSE]

\* No LLMService call yet.
\*   raised      the exception the caller saw ("none": the call returned)
\*   built       build_messages returned; messages is what it returned
\*   dispatched  how often the transport was called; answer what it did
\*   calls       the transport calls made, each with its arguments
\*   kwargs      the call parameters build_api_params returned
\*   console     what build_messages printed on the console
\*   exit        the status the process ended with ("-": it runs)
\*   info        what process_user_input returned (NoInfo: nothing)
\*   response    what send_message returned
\*   logged      what the call wrote to the log about the API call
\*   history     what get_history returned
\*   config_reloaded, template_reloaded   what check_hot_reload returned
\*   rendered    what render() / render_user() returned
\*   quiet       no watched file was changed while the call ran
\*   user_reloaded   what check_and_reload_user_template returned
\*   loads       how often render() called load()
NoTurn == [op |-> "-", session_id |-> "-", user_input |-> "-",
           log_full_history |-> FALSE, raised |-> "none", built |-> FALSE,
           messages |-> <<>>, model |-> "", answer |-> "-", response |-> "",
           logged |-> NoLog, dispatched |-> 0, history |-> <<>>,
           config_reloaded |-> FALSE, template_reloaded |-> FALSE,
           rendered |-> "", quiet |-> TRUE, user_reloaded |-> FALSE, loads |-> 0,
           kwargs |-> EmptyMap, calls |-> <<>>, console |-> NoTree, exit |-> "-",
           info |-> NoInfo]

\* No watcher call yet.
\*   quiet      the file was not changed while the call ran
\*   raised     the exception the caller saw ("none": the call returned)
\*   loadErr    the exception load() raised inside the call ("-": not called)
\*   reloaded   the boolean returned by check_and_reload()
\*   retDoc / retTpl   the document / template returned
\*   reads      how often the call read the file's content
\*   preMtime   the recorded timestamp when the call began
\*   wasPending a reload had come to nothing when the call began
\*   twice      the call before was the same quiet check_and_reload(), with
\*              no edit in between; readsBefore is what that call read
\*   absent     the call's first exists() found the path missing
NoCall == [op |-> "-", quiet |-> TRUE, raised |-> "none", loadErr |-> "-",
           reloaded |-> FALSE, retDoc |-> NoDoc, retTpl |-> NoTemplate,
           reads |-> 0, preMtime |-> NoMtime, wasPending |-> FALSE, twice |-> FALSE,
           readsBefore |-> 0, absent |-> FALSE]

Edited == [NoCall EXCEPT !.op = "edit"]

Call(name, fs, r, doc, tpl, mt) ==
    LET again == /\ name \in {"config.check_and_reload", "template.check_and_reload"}
                 /\ last.op = name
                 /\ last.quiet
                 /\ Quiet(fs)
    IN  [op |-> name, quiet |-> Quiet(fs), raised |-> r.raised,
         loadErr |-> r.loadErr, reloaded |-> r.reloaded, retDoc |-> doc,
         retTpl |-> tpl, reads |-> r.reads, preMtime |-> mt,
         wasPending |-> (pending # "none"), twice |-> again,
         readsBefore |-> IF again THEN last.reads ELSE 0,
         absent |-> ~fs[1].exists]

\* What a reload that came to nothing leaves pending: the path was missing
\* (missing), or load() raised (r.loadErr); a load() that returned clears it.
Pending(missing, r) ==
    IF missing THEN "FileNotFoundError"
    ELSE IF r.loadErr = "none" THEN "none"
    ELSE IF r.loadErr = "-" THEN pending
    ELSE r.loadErr

\* ------------------------------------------------------------------ ConfigLoader calls

\* An editor saves, touches, truncates or removes the configuration file.
EditConfigFile ==
    /\ focus = "config"
    /\ \E g \in CfgFiles \ {configFile} : configFile' = g
    /\ last' = Edited
    /\ UNCHANGED <<config, config_last_mtime, lastGood, promptVars, serviceVars, logVars, memVars, stream,
                   pending, focus>>

\* load(), called directly (the start-up load).
CfgLoad ==
    /\ focus = "config"
    /\ \E fs \in Timelines(configFile, CfgFiles, 3) :
         LET r == ConfigLoad(config, config_last_mtime, fs[1], fs[2], fs[3])
             c == [raised |-> r.err, loadErr |-> r.err, reloaded |-> FALSE,
                   reads |-> r.reads]
         IN  /\ config' = r.config
             /\ config_last_mtime' = r.last_mtime
             /\ lastGood' = IF r.err = "none" THEN r.ret ELSE lastGood
             /\ pending' = IF r.err = "none" THEN "none" ELSE pending
             /\ configFile' = fs[3]
             /\ last' = Call("config.load", fs, c, r.ret, NoTemplate, config_last_mtime)
    /\ UNCHANGED <<promptVars, serviceVars, logVars, memVars, stream, focus>>

CfgCheckAndReload ==
    /\ focus = "config"
    /\ \E fs \in Timelines(configFile, CfgFiles, 5) :
         LET r == ConfigCheckAndReload(config, config_last_mtime, fs)
         IN  /\ config' = r.config
             /\ config_last_mtime' = r.last_mtime
             /\ lastGood' = IF r.loadErr = "none" THEN r.ret ELSE lastGood
             /\ pending' = Pending(~fs[1].exists, r)
             /\ configFile' = fs[5]
             /\ last' = Call("config.check_and_reload", fs, r, r.ret, NoTemplate,
                             config_last_mtime)
    /\ UNCHANGED <<promptVars, serviceVars, logVars, memVars, stream, focus>>

CfgGetConfig ==
    /\ focus = "config"
    /\ \E fs \in Timelines(configFile, CfgFiles, 3) :
         LET r == ConfigGetConfig(config, config_last_mtime, fs)
         IN  /\ config' = r.config
             /\ config_last_mtime' = r.last_mtime
             /\ lastGood' = IF r.loadErr = "none" THEN r.ret ELSE lastGood
             /\ pending' = IF r.loadErr = "none" THEN "none" ELSE pending
             /\ configFile' = fs[3]
             /\ last' = Call("config.get_config", fs, r, r.ret, NoTemplate,
                             config_last_mtime)
    /\ UNCHANGED <<promptVars, serviceVars, logVars, memVars, stream, focus>>

\* ------------------------------------------------------------------ PromptBuilder calls

EditTemplateFile ==
    /\ focus = "template"
    /\ \E g \in TplFiles \ {templateFile} : templateFile' = g
    /\ last' = Edited
    /\ UNCHANGED <<template, template_last_mtime, configVars, serviceVars, logVars, memVars, stream,
                   pending, focus>>

TplLoad ==
    /\ focus = "template"
    /\ \E fs \in Timelines(templateFile, TplFiles, 3) :
         LET r == PromptLoad(template, template_last_mtime, fs[1], fs[2], fs[3])
             c == [raised |-> r.err, loadErr |-> r.err, reloaded |-> FALSE,
                   reads |-> r.reads]
         IN  /\ template' = r.template
             /\ template_last_mtime' = r.last_mtime
             /\ pending' = IF r.err = "none" THEN "none" ELSE pending
             /\ templateFile' = fs[3]
             /\ last' = Call("template.load", fs, c, NoDoc, r.ret, template_last_mtime)
    /\ UNCHANGED <<configVars, serviceVars, logVars, memVars, stream, focus>>

TplCheckAndReload ==
    /\ focus = "template"
    /\ \E fs \in Timelines(templateFile, TplFiles, 5) :
         LET r == PromptCheckAndReload(template, template_last_mtime, fs)
         IN  /\ template' = r.template
             /\ template_last_mtime' = r.last_mtime
             /\ pending' = Pending(~fs[1].exists, r)
             /\ templateFile' = fs[5]
             /\ last' = Call("template.check_and_reload", fs, r, NoDoc, r.ret,
                             template_last_mtime)
    /\ UNCHANGED <<configVars, serviceVars, logVars, memVars, stream, focus>>

\* ------------------------------------------------------------------ the watchers

\* ConfigLoader and PromptBuilder share no state; a run constructs one of
\* them over its file (the other object's file is not there and stays so).
InitWatch ==
    /\ focus \in {"config", "template"}
    /\ configFile \in (IF focus = "config" THEN CfgFiles ELSE {NoFile})
    /\ config = NoDoc
    /\ config_last_mtime = NoMtime
    /\ lastGood = NoDoc
    /\ templateFile \in (IF focus = "template" THEN TplFiles ELSE {NoFile})
    /\ template = NoTemplate
    /\ template_last_mtime = NoMtime
    /\ userTemplateFile = NoFile
    /\ user_template = NoTemplate
    /\ user_last_mtime = NoMtime
    /\ sessions = NoSessions
    /\ pending = "none"
    /\ last = NoCall
    /\ turn = NoTurn
    /\ LogAtRest
    /\ MemAtRest
    /\ stream = NoStream

NextWatch ==
    \/ EditConfigFile
    \/ CfgLoad
    \/ CfgCheckAndReload
    \/ CfgGetConfig
    \/ EditTemplateFile
    \/ TplLoad
    \/ TplCheckAndReload

SpecWatch == InitWatch /\ [][NextWatch]_vars

\* ------------------------------------------------------------------ LLMService calls

SessionIds == {"default", "test_session"}
Inputs == {"Hi", "Yo"}
Replies == {"Hello!"}

\* The objects as they are now / as a call leaves them.
State ==
    [config |-> config, config_last_mtime |-> config_last_mtime,
     template |-> template, template_last_mtime |-> template_last_mtime,
     user_template |-> user_template, user_last_mtime |-> user_last_mtime,
     sessions |-> sessions, cf |-> configFile, tf |-> templateFile,
     uf |-> userTemplateFile, debug |-> logger_levels["app.prompt"] <= DEBUG]

Becomes(st) ==
    /\ config' = st.config
    /\ config_last_mtime' = st.config_last_mtime
    /\ template' = st.template
    /\ template_last_mtime' = st.template_last_mtime
    /\ user_template' = st.user_template
    /\ user_last_mtime' = st.user_last_mtime
    /\ sessions' = st.sessions
    /\ UNCHANGED <<configFile, templateFile, userTemplateFile, watchHistory, logVars, memVars, stream, focus>>

\* What get_history shows of a session (the empty log for a new id).
History(ss, sid) == IF sid \in DOMAIN ss THEN ss[sid] ELSE <<>>

\* The number of records in all logs together.
RECURSIVE StoredIn(_, _)
StoredIn(ss, ids) ==
    IF ids = {} THEN 0
    ELSE LET sid == CHOOSE x \in ids : TRUE
         IN  Len(ss[sid]) + StoredIn(ss, ids \ {sid})

Stored(ss) == StoredIn(ss, DOMAIN ss)

\* send_message(user_input, session_id, log_full_history); the transport,
\* if the call gets to it, raises or replies.
SvcSendMessage ==
    /\ focus \in {"service", "logging"}
    /\ \E u \in Inputs, sid \in SessionIds, full \in BOOLEAN,
          answer \in Replies \cup {"raise"} :
         LET r == SendMessage(State, u, sid, full, answer)
         IN  /\ Stored(sessions) < 2 * MaxTurns
             /\ Becomes(r.st)
             /\ turn' = [NoTurn EXCEPT
                           !.op = "send_message", !.session_id = sid,
                           !.user_input = u, !.log_full_history = full,
                           !.raised = r.err, !.built = r.built,
                           !.messages = r.messages, !.model = r.model,
                           !.answer = IF r.dispatched = 1 THEN answer ELSE "-",
                           !.response = r.response, !.logged = r.logged,
                           !.dispatched = r.dispatched, !.kwargs = r.kwargs,
                           !.calls = r.calls, !.console = r.console]

\* build_messages(user_input, session_id), called on its own.
SvcBuildMessages ==
    /\ focus = "service"
    /\ \E u \in Inputs, sid \in SessionIds :
         LET r == BuildMessages(State, u, sid)
         IN  /\ Becomes(r.st)
             /\ turn' = [NoTurn EXCEPT
                           !.op = "build_messages", !.session_id = sid,
                           !.user_input = u, !.raised = r.err,
                           !.built = (r.err = "none"), !.messages = r.messages,
                           !.console = r.console]

\* build_api_params(), called on its own: get_config(), then the split.
SvcBuildApiParams ==
    /\ focus = "service"
    /\ \E g \in {ConfigGetConfig(config, config_last_mtime, Still(configFile, 3))} :
         /\ Becomes([State EXCEPT !.config = g.config,
                                  !.config_last_mtime = g.last_mtime])
         /\ turn' = IF g.raised # "none"
                    THEN [NoTurn EXCEPT !.op = "build_api_params",
                                        !.raised = g.raised]
                    ELSE [NoTurn EXCEPT !.op = "build_api_params",
                                        !.model = BuildApiParams(g.ret).model,
                                        !.kwargs = BuildApiParams(g.ret).kwargs]

SvcGetHistory ==
    /\ focus = "service"
    /\ \E sid \in SessionIds :
         LET r == GetHistory(sessions, sid)
         IN  /\ Becomes([State EXCEPT !.sessions = r.sessions])
             /\ turn' = [NoTurn EXCEPT !.op = "get_history", !.session_id = sid,
                                       !.history = r.history]

SvcClearHistory ==
    /\ focus \in {"service", "stream"}
    /\ \E sid \in SessionIds :
         /\ Becomes([State EXCEPT !.sessions = ClearSession(sessions, sid)])
         /\ turn' = [NoTurn EXCEPT !.op = "clear_history", !.session_id = sid]

\* main.py constructs ConfigLoader and PromptBuilder over the files as they
\* are, the adapter a SessionMemory and the LLMService; nothing is loaded.
Init ==
    /\ focus = "service"
    /\ configFile \in {f \in CfgFiles : f.mtime <= 1}
    /\ config = NoDoc
    /\ config_last_mtime = NoMtime
    /\ lastGood = NoDoc
    /\ templateFile \in {f \in TplFiles : f.mtime <= 1}
    /\ template = NoTemplate
    /\ template_last_mtime = NoMtime
    /\ userTemplateFile \in {f \in TplFiles : f.mtime <= 1}
    /\ user_template = NoTemplate
    /\ user_last_mtime = NoMtime
    /\ sessions = NoSessions
    /\ pending = "none"
    /\ last = NoCall
    /\ turn = NoTurn
    /\ LogAtRest
    /\ MemAtRest
    /\ stream = NoStream

Next ==
    \/ SvcSendMessage
    \/ SvcBuildMessages
    \/ SvcBuildApiParams
    \/ SvcGetHistory
    \/ SvcClearHistory

Spec == Init /\ [][Next]_vars

\* ------------------------------------------------------------------ a running session

\* The session id the adapter uses (cli_ptk.py l.79).
AdapterSession == "default"

\* The watched files an editor works on while the session runs.
Watched == {"reload.config", "reload.template", "reload.user"}

\* The timelines of a call of n observations of the file f of kind k: an
\* editor may change the file the run's editor works on, no other.
Seen(k, f, files, n) == IF focus = k THEN Timelines(f, files, n) ELSE {Still(f, n)}

\* The objects and the files as a call leaves them.
Leaves(st, cf, tf, uf) ==
    /\ config' = st.config
    /\ config_last_mtime' = st.config_last_mtime
    /\ template' = st.template
    /\ template_last_mtime' = st.template_last_mtime
    /\ user_template' = st.user_template
    /\ user_last_mtime' = st.user_last_mtime
    /\ sessions' = st.sessions
    /\ configFile' = cf
    /\ templateFile' = tf
    /\ userTemplateFile' = uf
    /\ UNCHANGED <<watchHistory, logVars, memVars, stream, focus>>

\* An editor saves, touches, truncates or removes the file it works on.
RunEdit ==
    /\ focus \in Watched
    /\ \/ focus = "reload.config"
          /\ \E g \in CfgFiles \ {configFile} : configFile' = g
          /\ UNCHANGED <<templateFile, userTemplateFile>>
       \/ focus = "reload.template"
          /\ \E g \in TplFiles \ {templateFile} : templateFile' = g
          /\ UNCHANGED <<configFile, userTemplateFile>>
       \/ focus = "reload.user"
          /\ \E g \in TplFiles \ {userTemplateFile} : userTemplateFile' = g
          /\ UNCHANGED <<configFile, templateFile>>
    /\ turn' = [NoTurn EXCEPT !.op = "edit"]
    /\ UNCHANGED <<config, config_last_mtime, template, template_last_mtime,
                   user_template, user_last_mtime, sessions, watchHistory, logVars, memVars, stream, focus>>

\* check_hot_reload(), as the REPL calls it before each turn (cli_ptk.py l.371).
RunCheckHotReload ==
    /\ focus \in Watched
    /\ \E cfs \in Seen("reload.config", configFile, CfgFiles, 5),
          tfs \in Seen("reload.template", templateFile, TplFiles, 5) :
         LET r == CheckHotReload(State, cfs, tfs)
         IN  /\ Leaves(r.st, cfs[5], tfs[5], userTemplateFile)
             /\ turn' = [NoTurn EXCEPT
                           !.op = "check_hot_reload", !.raised = r.raised,
                           !.config_reloaded = r.config_reloaded,
                           !.template_reloaded = r.template_reloaded,
                           !.quiet = Quiet(cfs) /\ Quiet(tfs)]

\* prompt_builder.render_user(user_input=u, config=config): the call
\* send_message makes at l.278.
RunRenderUser ==
    /\ focus \in Watched
    /\ \E u \in Inputs, ufs \in Seen("reload.user", userTemplateFile, TplFiles, 8) :
         LET r == RenderUser(user_template, user_last_mtime, ufs, u, config)
         IN  /\ Leaves([State EXCEPT !.user_template = r.user_template,
                                     !.user_last_mtime = r.user_last_mtime],
                       configFile, templateFile, ufs[8])
             /\ turn' = [NoTurn EXCEPT
                           !.op = "render_user", !.user_input = u,
                           !.raised = r.err, !.rendered = r.out,
                           !.quiet = Quiet(ufs)]

\* send_message() of the adapter's session, in either logging mode.
RunSendMessage ==
    /\ focus \in Watched
    /\ \E u \in Inputs, full \in BOOLEAN, answer \in Replies \cup {"raise"} :
         LET r == SendMessage(State, u, AdapterSession, full, answer)
         IN  /\ Stored(sessions) < 2 * MaxRunTurns
             /\ Leaves(r.st, configFile, templateFile, userTemplateFile)
             /\ turn' = [NoTurn EXCEPT
                           !.op = "send_message", !.session_id = AdapterSession,
                           !.user_input = u, !.log_full_history = full,
                           !.raised = r.err, !.built = r.built,
                           !.messages = r.messages, !.model = r.model,
                           !.answer = IF r.dispatched = 1 THEN answer ELSE "-",
                           !.response = r.response, !.logged = r.logged,
                           !.dispatched = r.dispatched, !.kwargs = r.kwargs,
                           !.calls = r.calls, !.console = r.console]

\* Files that load: a configuration with the required keys, a template the
\* engine compiles.
GoodCfgFiles == {f \in CfgFiles : f.exists /\ Validate(SafeLoad(f.body)) = "none"
                                            /\ SafeLoad(f.body).kind = "map"}
GoodTplFiles == {f \in TplFiles : f.exists /\ GetTemplate(f).err = "none"}

\* The files a run's editor leaves alone: a configuration with a system
\* prompt, the template that renders it, no user template.
RestingConfig == [exists |-> TRUE, mtime |-> 1, body |-> "S"]
RestingTemplate == [exists |-> TRUE, mtime |-> 1, body |-> "T1"]

\* The adapter after its initial load has succeeded (cli_ptk.py l.89-96):
\* configuration and primary template are cached with their timestamps, the
\* user template has not been looked at.
InitRun ==
    /\ focus \in Watched
    /\ configFile \in (IF focus = "reload.config"
                       THEN {f \in GoodCfgFiles : f.mtime = 1}
                       ELSE {RestingConfig})
    /\ config = SafeLoad(configFile.body)
    /\ config_last_mtime = configFile.mtime
    /\ lastGood = config
    /\ templateFile \in (IF focus = "reload.template"
                         THEN {f \in GoodTplFiles : f.mtime = 1}
                         ELSE {RestingTemplate})
    /\ template = GetTemplate(templateFile).tpl
    /\ template_last_mtime = templateFile.mtime
    /\ userTemplateFile \in (IF focus = "reload.user"
                             THEN {f \in TplFiles : f.mtime <= 1}
                             ELSE {NoFile})
    /\ user_template = NoTemplate
    /\ user_last_mtime = NoMtime
    /\ sessions = NoSessions
    /\ pending = "none"
    /\ last = NoCall
    /\ turn = NoTurn
    /\ LogAtRest
    /\ MemAtRest
    /\ stream = NoStream

NextRun ==
    \/ RunEdit
    \/ RunCheckHotReload
    \/ RunRenderUser
    \/ RunSendMessage

SpecRun == InitRun /\ [][NextRun]_vars

\* ------------------------------------------------------------------ PromptBuilder, both slots

\* The template file an editor works on during a run of the builder.
Slots == {"prompt.primary", "prompt.user"}

RestingUserTemplate == [exists |-> TRUE, mtime |-> 1, body |-> "T2"]

\* The configuration handed to render() and render_user().
RenderConfig == SafeLoad(RestingConfig.body)

\* The builder's two slots and files as a call leaves them.
Slotted(tpl, mt, ut, umt, tf, uf) ==
    /\ template' = tpl
    /\ template_last_mtime' = mt
    /\ user_template' = ut
    /\ user_last_mtime' = umt
    /\ templateFile' = tf
    /\ userTemplateFile' = uf
    /\ UNCHANGED <<configVars, sessions, pending, last, logVars, memVars, stream, focus>>

PbEdit ==
    /\ focus \in Slots
    /\ \/ focus = "prompt.primary"
          /\ \E g \in TplFiles \ {templateFile} :
               Slotted(template, template_last_mtime, user_template,
                       user_last_mtime, g, userTemplateFile)
       \/ focus = "prompt.user"
          /\ \E g \in TplFiles \ {userTemplateFile} :
               Slotted(template, template_last_mtime, user_template,
                       user_last_mtime, templateFile, g)
    /\ turn' = [NoTurn EXCEPT !.op = "edit"]

\* load()
PbLoad ==
    /\ focus \in Slots
    /\ \E fs \in Seen("prompt.primary", templateFile, TplFiles, 3) :
         LET r == PromptLoad(template, template_last_mtime, fs[1], fs[2], fs[3])
         IN  /\ Slotted(r.template, r.last_mtime, user_template, user_last_mtime,
                        fs[3], userTemplateFile)
             /\ turn' = [NoTurn EXCEPT !.op = "load", !.raised = r.err,
                                       !.quiet = Quiet(fs)]

\* check_and_reload() that watches the user template's file.
PbCheckAndReload_WatchesUserFile ==
    /\ focus \in Slots
    /\ \E fs \in Seen("prompt.user", userTemplateFile, TplFiles, 5) :
         LET r == PromptCheckAndReload(template, template_last_mtime, fs)
         IN  /\ Slotted(r.template, r.last_mtime, user_template, user_last_mtime,
                        templateFile, fs[5])
             /\ turn' = [NoTurn EXCEPT !.op = "check_and_reload",
                                       !.raised = r.raised,
                                       !.template_reloaded = r.reloaded,
                                       !.quiet = Quiet(fs)]

\* check_and_reload()
PbCheckAndReload ==
    /\ focus \in Slots
    /\ \E fs \in Seen("prompt.primary", templateFile, TplFiles, 5) :
         LET r == PromptCheckAndReload(template, template_last_mtime, fs)
         IN  /\ Slotted(r.template, r.last_mtime, user_template, user_last_mtime,
                        fs[5], userTemplateFile)
             /\ turn' = [NoTurn EXCEPT !.op = "check_and_reload",
                                       !.raised = r.raised,
                                       !.template_reloaded = r.reloaded,
                                       !.quiet = Quiet(fs)]

\* render(user_input=u, config=RenderConfig)
PbRender ==
    /\ focus \in Slots
    /\ \E u \in Inputs, fs \in Seen("prompt.primary", templateFile, TplFiles, 3) :
         LET r == PromptRender(template, template_last_mtime, fs, u, RenderConfig)
         IN  /\ Slotted(r.template, r.last_mtime, user_template, user_last_mtime,
                        fs[3], userTemplateFile)
             /\ turn' = [NoTurn EXCEPT !.op = "render", !.user_input = u,
                                       !.raised = r.err, !.rendered = r.out,
                                       !.loads = r.loads, !.quiet = Quiet(fs)]

\* load_user_template()
PbLoadUserTemplate ==
    /\ focus \in Slots
    /\ \E fs \in Seen("prompt.user", userTemplateFile, TplFiles, 3) :
         LET r == LoadUserTemplate(user_template, user_last_mtime,
                                   fs[1], fs[2], fs[3])
         IN  /\ Slotted(template, template_last_mtime, r.user_template,
                        r.user_last_mtime, templateFile, fs[3])
             /\ turn' = [NoTurn EXCEPT !.op = "load_user_template",
                                       !.raised = r.err, !.quiet = Quiet(fs)]

\* check_and_reload_user_template()
PbCheckAndReloadUserTemplate ==
    /\ focus \in Slots
    /\ \E fs \in Seen("prompt.user", userTemplateFile, TplFiles, 5) :
         LET r == CheckAndReloadUserTemplate(user_template, user_last_mtime, fs)
         IN  /\ Slotted(template, template_last_mtime, r.user_template,
                        r.user_last_mtime, templateFile, fs[5])
             /\ turn' = [NoTurn EXCEPT !.op = "check_and_reload_user_template",
                                       !.raised = r.raised,
                                       !.user_reloaded = r.reloaded,
                                       !.quiet = Quiet(fs)]

\* render_user(user_input=u, config=RenderConfig)
PbRenderUser ==
    /\ focus \in Slots
    /\ \E u \in Inputs, fs \in Seen("prompt.user", userTemplateFile, TplFiles, 8) :
         LET r == RenderUser(user_template, user_last_mtime, fs, u, RenderConfig)
         IN  /\ Slotted(template, template_last_mtime, r.user_template,
                        r.user_last_mtime, templateFile, fs[8])
             /\ turn' = [NoTurn EXCEPT !.op = "render_user", !.user_input = u,
                                       !.raised = r.err, !.rendered = r.out,
                                       !.quiet = Quiet(fs)]

\* PromptBuilder(template_path): both slots empty (l.12-21).  The file the
\* editor leaves alone is missing or a template that compiles.
InitPrompt ==
    /\ focus \in Slots
    /\ configFile = NoFile
    /\ config = NoDoc
    /\ config_last_mtime = NoMtime
    /\ lastGood = NoDoc
    /\ templateFile \in (IF focus = "prompt.primary" THEN TplFiles
                         ELSE {NoFile, RestingTemplate})
    /\ template = NoTemplate
    /\ template_last_mtime = NoMtime
    /\ userTemplateFile \in (IF focus = "prompt.user" THEN TplFiles
                             ELSE {NoFile, RestingUserTemplate})
    /\ user_template = NoTemplate
    /\ user_last_mtime = NoMtime
    /\ sessions = NoSessions
    /\ pending = "none"
    /\ last = NoCall
    /\ turn = NoTurn
    /\ LogAtRest
    /\ MemAtRest
    /\ stream = NoStream

NextPrompt ==
    \/ PbEdit
    \/ PbLoad
    \/ PbCheckAndReload
    \/ PbRender
    \/ PbLoadUserTemplate
    \/ PbCheckAndReloadUserTemplate
    \/ PbRenderUser

SpecPrompt == InitPrompt /\ [][NextPrompt]_vars

\* ------------------------------------------------------------------ LogManager calls

\* The names the /loglevel command may hand to set_level: a curated
\* component, "all", or a name that is neither.
ComponentArgs == Components \cup {"all", "bogus"}

\* What no LogManager call touches.
LogFrame ==
    UNCHANGED <<configVars, promptVars, serviceVars, memVars, stream, pending, focus, last>>

\* set_level(component, level)
LogSetLevel ==
    /\ focus = "log"
    /\ \E component \in ComponentArgs, level \in Levels :
         LET r == SetLevel(root_level, logger_levels, component, level)
         IN  /\ root_level' = r.root
             /\ logger_levels' = r.levels
             /\ logCall' = [NoLogCall EXCEPT
                              !.op = "set_level", !.component = component,
                              !.level = level, !.ok = r.ok, !.msg = r.msg,
                              !.root_before = root_level]
    /\ LogFrame

\* get_status()
LogGetStatus ==
    /\ focus = "log"
    /\ root_level' = root_level
    /\ logger_levels' = logger_levels
    /\ logCall' = [NoLogCall EXCEPT
                     !.op = "get_status",
                     !.status = GetStatus(root_level, logger_levels)]
    /\ LogFrame

\* LogManager(root_logger) constructed over a root logger at any level.
InitLog ==
    /\ focus = "log"
    /\ configFile = NoFile
    /\ config = NoDoc
    /\ config_last_mtime = NoMtime
    /\ lastGood = NoDoc
    /\ templateFile = NoFile
    /\ template = NoTemplate
    /\ template_last_mtime = NoMtime
    /\ userTemplateFile = NoFile
    /\ user_template = NoTemplate
    /\ user_last_mtime = NoMtime
    /\ sessions = NoSessions
    /\ pending = "none"
    /\ last = NoCall
    /\ turn = NoTurn
    /\ root_level \in Levels
    /\ logger_levels = LogManagerInit
    /\ logCall = NoLogCall
    /\ MemAtRest
    /\ stream = NoStream

NextLog ==
    \/ LogSetLevel
    \/ LogGetStatus

SpecLog == InitLog /\ [][NextLog]_vars

\* ------------------------------------------------------------------ SessionMemory calls

\* The records a caller adds.
Records == {HumanMessage("Hi"), AIMessage("Hello!")}

\* SessionMemory.sessions as values: what each registered session's owner holds.
View(reg, lg) == [sid \in DOMAIN reg |-> lg[reg[sid]]]

MemFrame ==
    /\ focus = "memory"
    /\ UNCHANGED <<configVars, promptVars, userTemplateFile, user_template,
                   user_last_mtime, turn, logVars, pending, focus, last, stream>>

\* The state after a call that left registry, logs and the owner counter as r has them.
MemBecomes(r) ==
    /\ r.next <= MaxOwners + 1
    /\ registry' = r.registry
    /\ logs' = r.logs
    /\ nextOwner' = r.next
    /\ sessions' = View(r.registry, r.logs)

\* owner = memory.get_session(session_id): the caller keeps the owner.
MemGet ==
    /\ \E session_id \in SessionIds :
         LET r == MemGetSession(registry, logs, nextOwner, session_id)
         IN  /\ MemBecomes(r)
             /\ held' = [held EXCEPT !.owner = r.owner, !.sid = session_id,
                                     !.deleted = FALSE]
             /\ memCall' = [NoMemCall EXCEPT
                              !.op = "get_session", !.session_id = session_id,
                              !.owner = r.owner]
    /\ MemFrame

\* owner.add_message(message) on the owner the caller holds.
MemAddHeld ==
    /\ held.owner # NoOwner
    /\ Stored(logs) < MaxLog
    /\ \E message \in Records :
         /\ MemBecomes([registry |-> registry,
                        logs |-> AddMessage(logs, held.owner, message),
                        next |-> nextOwner])
         /\ memCall' = [NoMemCall EXCEPT
                          !.op = "add_message", !.owner = held.owner]
    /\ held' = held
    /\ MemFrame

\* memory.clear_session(session_id)
MemClear ==
    /\ \E session_id \in SessionIds :
         /\ MemBecomes(MemClearSession(registry, logs, nextOwner, session_id))
         /\ memCall' = [NoMemCall EXCEPT
                          !.op = "clear_session", !.session_id = session_id]
    /\ held' = held
    /\ MemFrame

\* memory.delete_session(session_id)
MemDelete ==
    /\ \E session_id \in SessionIds :
         /\ MemBecomes(MemDeleteSession(registry, logs, nextOwner, session_id))
         /\ held' = [held EXCEPT !.deleted = @ \/ held.sid = session_id]
         /\ memCall' = [NoMemCall EXCEPT
                          !.op = "delete_session", !.session_id = session_id]
    /\ MemFrame

\* history = service.get_history(session_id): the caller keeps the result.
MemHistory ==
    /\ \E session_id \in SessionIds :
         LET r == MemGetHistory(registry, logs, nextOwner, session_id)
         IN  /\ MemBecomes(r)
             /\ held' = [held EXCEPT !.history = r.ret]
             /\ memCall' = [NoMemCall EXCEPT
                              !.op = "get_history", !.session_id = session_id,
                              !.owner = r.ret.of]
    /\ MemFrame

\* The caller changes the result of get_history it holds, and lets go of it.
MemMutate ==
    /\ held.history.of # NoOwner
    /\ \E k \in Mutations :
         /\ MemBecomes([registry |-> registry,
                        logs |-> LogsAfterMutation(logs, held.history, k),
                        next |-> nextOwner])
         /\ held' = [held EXCEPT !.history = NoValue]
         /\ memCall' = [NoMemCall EXCEPT !.op = "mutate",
                                         !.owner = held.history.of]
    /\ MemFrame

\* A new SessionMemory.
InitMemory ==
    /\ focus = "memory"
    /\ configFile = NoFile
    /\ config = NoDoc
    /\ config_last_mtime = NoMtime
    /\ lastGood = NoDoc
    /\ templateFile = NoFile
    /\ template = NoTemplate
    /\ template_last_mtime = NoMtime
    /\ userTemplateFile = NoFile
    /\ user_template = NoTemplate
    /\ user_last_mtime = NoMtime
    /\ sessions = NoSessions
    /\ pending = "none"
    /\ last = NoCall
    /\ turn = NoTurn
    /\ LogAtRest
    /\ MemAtRest
    /\ stream = NoStream

NextMemory ==
    \/ MemGet
    \/ MemAddHeld
    \/ MemClear
    \/ MemDelete
    \/ MemHistory
    \/ MemMutate

SpecMemory == InitMemory /\ [][NextMemory]_vars

\* ------------------------------------------------------------------ the service and its logger

\* /loglevel prompt <level>: log_manager.set_level("prompt", level).
PromptSetLevel ==
    /\ focus \in {"logging", "input"}
    /\ \E level \in {DEBUG, INFO} :
         LET r == SetLevel(root_level, logger_levels, "prompt", level)
         IN  /\ root_level' = r.root
             /\ logger_levels' = r.levels
             /\ logCall' = [NoLogCall EXCEPT
                              !.op = "set_level", !.component = "prompt",
                              !.level = level, !.ok = r.ok, !.msg = r.msg,
                              !.root_before = root_level]
    /\ LogFrame

\* build_messages(user_input, session_id), with the logger at either level.
DbgBuildMessages ==
    /\ focus = "logging"
    /\ \E u \in {"Hi", "[/b]"}, sid \in SessionIds :
         LET r == BuildMessages(State, u, sid)
         IN  /\ Becomes(r.st)
             /\ turn' = [NoTurn EXCEPT
                           !.op = "build_messages", !.session_id = sid,
                           !.user_input = u, !.raised = r.err,
                           !.built = (r.err = "none"), !.messages = r.messages,
                           !.console = r.console]

\* The service constructed over files that load, its logger as the
\* LogManager leaves it; nothing is loaded.
InitLogging ==
    /\ focus = "logging"
    /\ configFile \in {RestingConfig, [RestingConfig EXCEPT !.body = "N"]}
    /\ config = NoDoc
    /\ config_last_mtime = NoMtime
    /\ lastGood = NoDoc
    /\ templateFile = RestingTemplate
    /\ template = NoTemplate
    /\ template_last_mtime = NoMtime
    /\ userTemplateFile \in {NoFile, RestingUserTemplate}
    /\ user_template = NoTemplate
    /\ user_last_mtime = NoMtime
    /\ sessions = NoSessions
    /\ pending = "none"
    /\ last = NoCall
    /\ turn = NoTurn
    /\ LogAtRest
    /\ MemAtRest
    /\ stream = NoStream

NextLogging ==
    \/ PromptSetLevel
    \/ SvcSendMessage
    \/ DbgBuildMessages

SpecLogging == InitLogging /\ [][NextLogging]_vars

\* ------------------------------------------------------------------ the adapter from its construction

\* The initial load that reports a failure and goes on.
InitialLoad_GoesOn(st, cfs, tfs) ==
    LET c == ConfigLoad(st.config, st.config_last_mtime, cfs[1], cfs[2], cfs[3])
        p == PromptLoad(st.template, st.template_last_mtime, tfs[1], tfs[2], tfs[3])
        st1 == [st EXCEPT !.config = c.config, !.config_last_mtime = c.last_mtime]
    IN  IF c.err # "none" THEN [err |-> c.err, exit |-> "-", st |-> st1]
        ELSE [err |-> p.err, exit |-> "-",
              st |-> [st1 EXCEPT !.template = p.template,
                                 !.template_last_mtime = p.last_mtime]]

\* The initial load of REPLCLI.__init__ (cli_ptk.py l.89-96):
\* config_loader.load(), then prompt_builder.load(); any exception of
\* either ends the process with sys.exit(1).
InitialLoad(st, cfs, tfs) ==
    LET c == ConfigLoad(st.config, st.config_last_mtime, cfs[1], cfs[2], cfs[3])
        p == PromptLoad(st.template, st.template_last_mtime, tfs[1], tfs[2], tfs[3])
        st1 == [st EXCEPT !.config = c.config, !.config_last_mtime = c.last_mtime]
    IN  IF c.err # "none" THEN [err |-> c.err, exit |-> "1", st |-> st1]
        ELSE [err |-> p.err, exit |-> IF p.err # "none" THEN "1" ELSE "-",
              st |-> [st1 EXCEPT !.template = p.template,
                                 !.template_last_mtime = p.last_mtime]]

\* REPLCLI(...) is constructed and, if the process is still there, run()
\* enters the REPL loop; an editor may change either file during the load.
Boot ==
    /\ focus = "boot"
    /\ \E cfs \in Timelines(configFile, CfgFiles, 3),
          tfs \in Timelines(templateFile, TplFiles, 3) :
         LET r == InitialLoad(State, cfs, tfs)
         IN  /\ config' = r.st.config
             /\ config_last_mtime' = r.st.config_last_mtime
             /\ template' = r.st.template
             /\ template_last_mtime' = r.st.template_last_mtime
             /\ lastGood' = IF r.err = "none" THEN r.st.config ELSE lastGood
             /\ configFile' = cfs[3]
             /\ templateFile' = tfs[3]
             /\ focus' = IF r.exit = "-" THEN "reload.user" ELSE "exited"
             /\ turn' = [NoTurn EXCEPT !.op = "boot", !.raised = r.err,
                                       !.exit = r.exit,
                                       !.quiet = Quiet(cfs) /\ Quiet(tfs)]
    /\ UNCHANGED <<userTemplateFile, user_template, user_last_mtime, sessions,
                   pending, last, logVars, memVars, stream>>

\* main.py has constructed ConfigLoader and PromptBuilder over the files as
\* they are: one of the two may be anything, nothing is loaded.
InitBoot ==
    /\ focus = "boot"
    /\ \/ configFile \in CfgFiles /\ templateFile = RestingTemplate
       \/ configFile = RestingConfig /\ templateFile \in TplFiles
    /\ config = NoDoc
    /\ config_last_mtime = NoMtime
    /\ lastGood = NoDoc
    /\ template = NoTemplate
    /\ template_last_mtime = NoMtime
    /\ userTemplateFile = NoFile
    /\ user_template = NoTemplate
    /\ user_last_mtime = NoMtime
    /\ sessions = NoSessions
    /\ pending = "none"
    /\ last = NoCall
    /\ turn = NoTurn
    /\ LogAtRest
    /\ MemAtRest
    /\ stream = NoStream

NextBoot ==
    \/ Boot
    \/ RunCheckHotReload
    \/ RunSendMessage

SpecBoot == InitBoot /\ [][NextBoot]_vars

\* ------------------------------------------------------------------ the adapter's input processing

\* str.strip() of a line: the whitespace at both ends removed.
RECURSIVE LStrip(_)
LStrip(s) == IF s # <<>> /\ s[1] = " " THEN LStrip(Tail(s)) ELSE s

RECURSIVE RStrip(_)
RStrip(s) ==
    IF s # <<>> /\ s[Len(s)] = " " THEN RStrip(SubSeq(s, 1, Len(s) - 1)) ELSE s

Strip(s) == RStrip(LStrip(s))

\* The line holds a closing markup tag: "[/", then characters other than
\* "[", then "]".  (A line this short has no room for an opening tag
\* before it, so the console's markup parser has nothing to close.)
ClosingTag(s) ==
    \E i \in 1..Len(s), j \in 1..Len(s) :
        /\ i + 1 < j
        /\ s[i] = "["
        /\ s[i + 1] = "/"
        /\ s[j] = "]"
        /\ \A k \in (i + 1)..(j - 1) : s[k] # "["

\* REPLCLI.process_user_input(user_input) (cli_ptk.py l.98-155) with the
\* logger enabled for DEBUG or not: the exception raised ("none": info is
\* the dict returned, without its metadata).  The name `processed` is
\* bound only inside the DEBUG branch (l.124) and read after it (l.154).
ProcessUserInput(debug, user_input) ==
    LET processed == Strip(user_input)
        type == IF processed # <<>> /\ processed[1] = "/" THEN "command"
                ELSE IF processed = <<>> THEN "empty"
                ELSE "message"
    IN  IF ~debug
        THEN [err |-> "UnboundLocalError", info |-> NoInfo]
        ELSE IF ClosingTag(user_input)
        THEN [err |-> "MarkupError", info |-> NoInfo]
        ELSE [err |-> "none",
              info |-> [original |-> user_input, processed |-> processed,
                        type |-> type, valid |-> (type # "empty")]]

\* A line is typed and run() passes it to process_user_input (l.383-386).
\* A line is a sequence of at most MaxInput characters.
InProcessUserInput ==
    /\ focus = "input"
    /\ \E user_input \in UNION { [1..n -> {" ", "/", "a", "[", "]"}] : n \in 0..MaxInput } :
         LET r == ProcessUserInput(State.debug, user_input)
         IN  turn' = [NoTurn EXCEPT !.op = "process_user_input",
                                    !.user_input = user_input,
                                    !.raised = r.err, !.info = r.info]
    /\ UNCHANGED <<configVars, promptVars, userTemplateFile, user_template,
                   user_last_mtime, sessions, pending, focus, last, logVars, memVars, stream>>

\* The adapter at its prompt, its logger as the LogManager leaves it.
InitInput ==
    /\ focus = "input"
    /\ configFile = RestingConfig
    /\ config = SafeLoad(configFile.body)
    /\ config_last_mtime = configFile.mtime
    /\ lastGood = config
    /\ templateFile = RestingTemplate
    /\ template = GetTemplate(templateFile).tpl
    /\ template_last_mtime = templateFile.mtime
    /\ userTemplateFile = NoFile
    /\ user_template = NoTemplate
    /\ user_last_mtime = NoMtime
    /\ sessions = NoSessions
    /\ pending = "none"
    /\ last = NoCall
    /\ turn = NoTurn
    /\ LogAtRest
    /\ MemAtRest
    /\ stream = NoStream

NextInput ==
    \/ PromptSetLevel
    \/ InProcessUserInput

SpecInput == InitInput /\ [][NextInput]_vars

\* ------------------------------------------------------------------ the streaming service

\* The non-empty chunks of the reply the transport is streaming, in their
\* order (stream_completion passes over an empty chunk, l.40-41).
Script == <<"Hel", "lo">>

\* "".join(chunks)
RECURSIVE Join(_)
Join(chunks) == IF chunks = <<>> THEN "" ELSE Head(chunks) \o Join(Tail(chunks))

\* stream_message up to its loop (l.73-116) on the state st: build_messages
\* and build_api_params of the LLMService it extends, which prints no tree,
\* and the log record; ru is the render_user() call of l.102.
StreamPrepare(st, user_input, session_id, log_full_history) ==
    Pick({ Pick({
        LET cfg == b.st.config
            params == BuildApiParams(cfg)
            rs == Render(b.st.template, user_input, cfg)
            st3 == [b.st EXCEPT !.user_template = ru.user_template,
                                !.user_last_mtime = ru.user_last_mtime]
        IN  IF b.err # "none"
            THEN [err |-> b.err, messages |-> <<>>, logged |-> NoLog, st |-> b.st]
            ELSE IF log_full_history
            THEN [err |-> "none", messages |-> b.messages,
                  logged |-> [mode |-> "full",
                              messages |-> MessagesToDict(b.messages)],
                  st |-> b.st]
            ELSE IF ru.err # "none"
            THEN [err |-> ru.err, messages |-> b.messages, logged |-> NoLog,
                  st |-> st3]
            ELSE [err |-> "none", messages |-> b.messages,
                  logged |-> [mode |-> "current",
                              messages |-> MessagesToDict(
                                  (IF SystemPromptSet(cfg) THEN <<SystemMessage(rs)>>
                                   ELSE <<>>) \o <<HumanMessage(ru.out)>>)],
                  st |-> st3]
        : ru \in {RenderUser(b.st.user_template, b.st.user_last_mtime,
                             Still(b.st.uf, 8), user_input, b.st.config)} })
      : b \in {BuildMessages([st EXCEPT !.debug = FALSE], user_input, session_id)} })

\* The loop of a stream_message that stores what has arrived so far when
\* the stream raises.
StreamLoop_SavesPartial(st, g, outcome) ==
    LET stored == [st EXCEPT !.sessions =
                      AddMessage(AddMessage(GetSession(st.sessions, g.session_id),
                                            g.session_id,
                                            HumanMessage(g.user_input)),
                                 g.session_id, AIMessage(Join(g.chunks)))]
    IN  IF outcome = "raise"
        THEN [err |-> "TransportError", value |-> "",
              g |-> [g EXCEPT !.state = "raised"], st |-> stored]
        ELSE IF outcome # "end"
        THEN [err |-> "none", value |-> outcome,
              g |-> [g EXCEPT !.state = "suspended",
                              !.chunks = Append(@, outcome)],
              st |-> st]
        ELSE [err |-> "none", value |-> Join(g.chunks),
              g |-> [g EXCEPT !.state = "returned"], st |-> stored]

\* The loop of stream_message (l.119-132) from its start or from the yield
\* it is suspended at, until it suspends again or ends: the generator g and
\* the state st afterwards, the chunk yielded or the response returned.
StreamLoop(st, g, outcome) ==
    IF outcome = "raise"
    THEN [err |-> "TransportError", value |-> "",
          g |-> [g EXCEPT !.state = "raised"], st |-> st]
    ELSE IF outcome # "end"
    THEN [err |-> "none", value |-> outcome,
          g |-> [g EXCEPT !.state = "suspended", !.chunks = Append(@, outcome)],
          st |-> st]
    ELSE [err |-> "none", value |-> Join(g.chunks),
          g |-> [g EXCEPT !.state = "returned"],
          st |-> [st EXCEPT !.sessions =
                     AddMessage(AddMessage(GetSession(st.sessions, g.session_id),
                                           g.session_id,
                                           HumanMessage(g.user_input)),
                                g.session_id, AIMessage(Join(g.chunks)))]]

\* next() on the generator g: a generator just created runs l.73-116 first.
StreamNext(st, g, outcome) ==
    Pick({ IF g.state = "created" /\ p.err # "none"
           THEN [err |-> p.err, value |-> "", logged |-> p.logged,
                 messages |-> p.messages,
                 g |-> [g EXCEPT !.state = "raised"], st |-> p.st]
           ELSE IF g.state = "created"
           THEN [logged |-> p.logged, messages |-> p.messages]
                @@ StreamLoop(p.st, g, outcome)
           ELSE [logged |-> NoLog, messages |-> <<>>] @@ StreamLoop(st, g, outcome)
         : p \in {StreamPrepare(st, g.user_input, g.session_id,
                                g.log_full_history)} })

\* The objects and the generator as a step of the consumer leaves them.
Streamed(st, g) ==
    /\ config' = st.config
    /\ config_last_mtime' = st.config_last_mtime
    /\ template' = st.template
    /\ template_last_mtime' = st.template_last_mtime
    /\ user_template' = st.user_template
    /\ user_last_mtime' = st.user_last_mtime
    /\ sessions' = st.sessions
    /\ stream' = g
    /\ UNCHANGED <<configFile, templateFile, userTemplateFile, watchHistory,
                   logVars, memVars, focus>>

\* stream_message(user_input, session_id, log_full_history): the call
\* returns a generator; none of its body has run.
StreamMessage ==
    /\ focus = "stream"
    /\ stream.state \notin {"created", "suspended"}
    /\ Stored(sessions) < 2 * MaxTurns
    /\ \E u \in Inputs, sid \in SessionIds, full \in BOOLEAN :
         /\ Streamed(State, [NoStream EXCEPT !.state = "created",
                                             !.user_input = u,
                                             !.session_id = sid,
                                             !.log_full_history = full])
         /\ turn' = [NoTurn EXCEPT !.op = "stream_message", !.session_id = sid,
                                   !.user_input = u, !.log_full_history = full]

\* The consumer asks for the next chunk; the transport yields the next
\* chunk of the reply, ends the stream (the reply may stop short), or raises.
StreamAdvance ==
    /\ focus = "stream"
    /\ stream.state \in {"created", "suspended"}
    /\ \E outcome \in {"end", "raise"}
                      \cup (IF Len(stream.chunks) < Len(Script)
                            THEN {Script[Len(stream.chunks) + 1]} ELSE {}) :
         LET r == StreamNext(State, stream, outcome)
         IN  /\ Streamed(r.st, r.g)
             /\ turn' = [NoTurn EXCEPT !.op = "next",
                                       !.session_id = stream.session_id,
                                       !.user_input = stream.user_input,
                                       !.log_full_history = stream.log_full_history,
                                       !.raised = r.err, !.response = r.value,
                                       !.messages = r.messages,
                                       !.logged = r.logged]

\* The consumer stops iterating: the generator is closed (or collected)
\* where it stands, and GeneratorExit leaves it at the yield of l.122.
StreamClose ==
    /\ focus = "stream"
    /\ stream.state \in {"created", "suspended"}
    /\ Streamed(State, [stream EXCEPT !.state = "closed"])
    /\ turn' = [NoTurn EXCEPT !.op = "close", !.session_id = stream.session_id,
                              !.user_input = stream.user_input]

\* An LLMServiceStreaming over the files as they are; nothing is loaded.
InitStream ==
    /\ focus = "stream"
    /\ configFile \in {RestingConfig, [RestingConfig EXCEPT !.body = "N"]}
    /\ config = NoDoc
    /\ config_last_mtime = NoMtime
    /\ lastGood = NoDoc
    /\ templateFile = RestingTemplate
    /\ template = NoTemplate
    /\ template_last_mtime = NoMtime
    /\ userTemplateFile \in {f \in TplFiles : f.mtime <= 1}
    /\ user_template = NoTemplate
    /\ user_last_mtime = NoMtime
    /\ sessions = NoSessions
    /\ pending = "none"
    /\ last = NoCall
    /\ turn = NoTurn
    /\ LogAtRest
    /\ MemAtRest
    /\ stream = NoStream

NextStream ==
    \/ StreamMessage
    \/ StreamAdvance
    \/ StreamClose
    \/ SvcClearHistory

SpecStream == InitStream /\ [][NextStream]_vars

\* ------------------------------------------------------------------ claims on the service

\* C1: when the transport raises during send_message, the session's history
\* after the call is its history before the call, record for record.
C1_FailedDispatchKeepsHistory ==
    [][ (turn'.op = "send_message" /\ turn'.raised = "TransportError")
        => History(sessions', turn'.session_id)
             = History(sessions, turn'.session_id) ]_vars

\* The transport has just raised in a current-turn-mode send_message on a
\* session that holds an earlier turn.
C1_Witness ==
    /\ turn.op = "send_message"
    /\ turn.dispatched = 1
    /\ turn.answer = "raise"
    /\ turn.raised = "TransportError"
    /\ ~turn.log_full_history
    /\ Len(History(sessions, turn.session_id)) >= 2

\* C2: when the transport replies, send_message appends the human record
\* (user_input) and then the ai record (the reply) to the session's log,
\* leaves the earlier records as they were, and returns the reply.
C2_SuccessAppendsTurn ==
    [][ (turn'.op = "send_message" /\ turn'.dispatched = 1 /\ turn'.answer # "raise")
        => /\ turn'.raised = "none"
           /\ turn'.response = turn'.answer
           /\ turn'.session_id \in DOMAIN sessions'
           /\ sessions'[turn'.session_id]
                = History(sessions, turn'.session_id)
                  \o << [type |-> "human", content |-> turn'.user_input],
                        [type |-> "ai", content |-> turn'.answer] >> ]_vars

\* A second turn has just been stored behind a first one.
C2_Witness ==
    /\ turn.op = "send_message"
    /\ turn.raised = "none"
    /\ turn.response \in Replies
    /\ Len(History(sessions, turn.session_id)) = 4
    /\ sessions[turn.session_id][1].content # sessions[turn.session_id][3].content

\* C3: build_messages returns [system message if any] followed by the stored
\* records in stored order followed by the current human message; with N
\* prior turns its length is 2N + (1 if a system message) + 1; and
\* build_messages changes no stored history.
C3_BuildOrder ==
    [][ turn'.built
        => LET h == History(sessions, turn'.session_id)
               m == turn'.messages
               prefix == IF m[1].type = "system" THEN <<m[1]>> ELSE <<>>
               N == Len(h) \div 2
           IN  /\ Len(h) = 2 * N
               /\ m = prefix \o h \o <<[type |-> "human", content |-> turn'.user_input]>>
               /\ Len(m) = N * 2 + Len(prefix) + 1
               /\ turn'.op = "build_messages"
                    => \A sid \in SessionIds :
                         History(sessions', sid) = History(sessions, sid) ]_vars

\* build_messages has just returned a system message, two stored turns with
\* different inputs, and the current input.
C3_Witness ==
    /\ turn.op = "build_messages"
    /\ turn.built
    /\ Len(History(sessions, turn.session_id)) = 4
    /\ sessions[turn.session_id][1].content # sessions[turn.session_id][3].content
    /\ turn.messages[1].type = "system"
    /\ Len(turn.messages) = 6

\* The cached configuration declares a non-empty system_prompt.
DeclaresSystemPrompt(doc) ==
    /\ "system_prompt" \in DOMAIN doc.map
    /\ doc.map["system_prompt"] # ""

\* C4: the sequence build_messages returns starts with a system message if
\* and only if the cached configuration declares a non-empty system_prompt,
\* and holds no system message anywhere else.
C4_SystemIffConfigured ==
    [][ turn'.built
        => /\ (turn'.messages[1].type = "system") <=> DeclaresSystemPrompt(config')
           /\ \A i \in 2..Len(turn'.messages) : turn'.messages[i].type # "system" ]_vars

\* build_messages has just put the system message in front of a stored turn.
C4_Witness ==
    /\ turn.op = "build_messages"
    /\ turn.built
    /\ DeclaresSystemPrompt(config)
    /\ turn.messages[1].type = "system"
    /\ turn.messages[1].content = "You are S"
    /\ Len(History(sessions, turn.session_id)) >= 2

\* ------------------------------------------------------------------ claims on a running session

\* C11: after a successful initial load, check_hot_reload() returns normally
\* and the user-template check made inside render_user / send_message does
\* not raise, whatever the watched files are (missing, invalid, mid-save),
\* and a check that reports no reload leaves the cached state as it was.
C11_ReloadFailuresAbsorbed ==
    [][ /\ turn'.op \in {"check_hot_reload", "render_user", "send_message"}
           => turn'.raised \in {"none", "TransportError"}
        /\ (turn'.op = "check_hot_reload" /\ ~turn'.config_reloaded)
           => /\ config' = config
              /\ config_last_mtime' = config_last_mtime
        /\ (turn'.op = "check_hot_reload" /\ ~turn'.template_reloaded)
           => /\ template' = template
              /\ template_last_mtime' = template_last_mtime ]_vars

\* ------------------------------------------------------------------ claims on PromptBuilder

\* C14: render_user(user_input=u, ...) returns exactly u, without raising,
\* when no user template file exists and none was ever loaded.
C14_RenderUserPassThrough ==
    [][ (/\ turn'.op = "render_user"
         /\ turn'.quiet
         /\ ~userTemplateFile'.exists
         /\ user_template = NoTemplate)
        => /\ turn'.raised = "none"
           /\ turn'.rendered = turn'.user_input
           /\ user_template' = NoTemplate ]_vars

\* render_user has just passed the input through in a run whose user
\* template file never existed.
C14_Witness ==
    /\ focus = "prompt.primary"
    /\ turn.op = "render_user"
    /\ turn.raised = "none"
    /\ turn.rendered = turn.user_input
    /\ turn.rendered \in Inputs
    /\ ~userTemplateFile.exists
    /\ user_template = NoTemplate

PrimaryOps == {"load", "check_and_reload", "render"}
UserOps == {"load_user_template", "check_and_reload_user_template", "render_user"}

\* C15: a call on the primary slot leaves the user slot's template and
\* timestamp as they were, and a call on the user slot the primary's; and
\* while only the other slot's file is edited, a slot that has loaded its
\* file reports no reload.
C15_SlotsIndependent ==
    [][ /\ turn'.op \in PrimaryOps
           => (user_template' = user_template /\ user_last_mtime' = user_last_mtime)
        /\ turn'.op \in UserOps
           => (template' = template /\ template_last_mtime' = template_last_mtime)
        /\ (/\ turn'.op = "check_and_reload"
            /\ focus = "prompt.user"
            /\ template_last_mtime # NoMtime)
           => (~turn'.template_reloaded /\ template' = template)
        /\ (/\ turn'.op = "check_and_reload_user_template"
            /\ focus = "prompt.primary"
            /\ user_last_mtime # NoMtime)
           => (~turn'.user_reloaded /\ user_template' = user_template) ]_vars

\* The user template's file was saved with a newer time and other content
\* than the loaded primary template has, and check_and_reload() has just
\* reported no change of the primary.
C15_Witness ==
    /\ focus = "prompt.user"
    /\ turn.op = "check_and_reload"
    /\ ~turn.template_reloaded
    /\ template # NoTemplate
    /\ userTemplateFile.exists
    /\ userTemplateFile.mtime > template_last_mtime
    /\ userTemplateFile.body # template.src

\* C16: render() loads the primary template first if and only if none is
\* cached; it fails with FileNotFoundError if none is cached and the file is
\* absent; and a render() that fails leaves the slot empty.
C16_RenderLazyLoad ==
    [][ turn'.op = "render"
        => /\ turn'.loads = (IF template = NoTemplate THEN 1 ELSE 0)
           /\ (template = NoTemplate /\ ~templateFile.exists)
                => turn'.raised = "FileNotFoundError"
           /\ turn'.raised # "none"
                => (template' = NoTemplate /\ template_last_mtime' = NoMtime) ]_vars

\* ------------------------------------------------------------------ claims on the watchers

ConfigCalls == {"config.load", "config.check_and_reload", "config.get_config"}
CheckCalls == {"config.check_and_reload", "template.check_and_reload"}

\* The call made a load attempt and load() raised.
LoadFailed(c) == c.loadErr \notin {"-", "none"}

\* The file exists and load() accepts its content.
CfgLoads(f) == f.exists /\ SafeLoad(f.body).kind = "map" /\ Validate(SafeLoad(f.body)) = "none"
TplLoads(f) == f.exists /\ GetTemplate(f).err = "none"

\* The cache and the recorded timestamp of the object c was called on are
\* what they were before the call, and the call returned that cache.
KeptState(c) ==
    IF c.op \in ConfigCalls
    THEN config' = config /\ config_last_mtime' = config_last_mtime /\ c.retDoc = config
    ELSE /\ template' = template
         /\ template_last_mtime' = template_last_mtime
         /\ c.retTpl = template

\* C5 (as claimed): a load attempt that fails leaves the cached document and
\* the recorded timestamp as they were, and the holder always contains
\* nothing or the document of the most recent successful load.
C5_FailedLoadLeavesHolder ==
    [][ /\ (last'.op \in ConfigCalls /\ LoadFailed(last'))
            => (config' = config /\ config_last_mtime' = config_last_mtime)
        /\ config' = lastGood' ]_vars

\* C6 (as claimed): ConfigLoader.check_and_reload() never raises, and when
\* its load fails it returns (false, previously cached document) and the
\* cached document is retained.
C6_CheckAndReloadNeverRaises ==
    [][ last'.op = "config.check_and_reload"
        => /\ last'.raised = "none"
           /\ LoadFailed(last')
                => (~last'.reloaded /\ last'.retDoc = config /\ config' = config) ]_vars

\* The second of two check_and_reload() calls on a file nobody changed
\* returned (false, existing cache) and changed nothing.
SecondCheckIsNoOp ==
    /\ ~last'.reloaded
    /\ last'.raised = "none"
    /\ KeptState(last')

\* C7 (as claimed): two check_and_reload() calls with no change of the file
\* read the file at most once between them, and the second returns
\* (false, existing cached document), whatever the file and the loader.
C7_TwoChecksOneRead ==
    [][ last'.twice => (last.reads + last'.reads <= 1 /\ SecondCheckIsNoOp) ]_vars

\* C7 (amended): the second of two such calls returns (false, existing
\* cached document) and changes nothing; the two calls read the file at most
\* once between them unless the first call's load failed, in which case the
\* second call reads the file again and fails the same way.
C7_TwoChecksOneReadUnlessInvalid ==
    [][ last'.twice
        => /\ SecondCheckIsNoOp
           /\ IF LoadFailed(last)
              THEN last.reads = 1 /\ last'.reads = 1 /\ last'.loadErr = last.loadErr
              ELSE last.reads + last'.reads <= 1 /\ last'.reads = 0 ]_vars

\* Two calls in a row on an unchanged valid file: the first read and loaded
\* it, the second read nothing.
C7_Witness ==
    /\ last.op = "config.check_and_reload"
    /\ last.twice
    /\ last.readsBefore = 1
    /\ last.reads = 0
    /\ config = SafeLoad(configFile.body)

\* check_and_reload() starts on a configuration file that exists with a
\* modification time strictly later than the recorded one, and nobody
\* changes the file while the call runs.
CfgTouchedLater ==
    /\ last'.op = "config.check_and_reload"
    /\ last'.quiet
    /\ config_last_mtime # NoMtime
    /\ configFile.exists
    /\ configFile.mtime > config_last_mtime

\* The call returned (true, content of the file) and recorded content and
\* timestamp.
CfgReloaded ==
    /\ last'.reloaded
    /\ last'.raised = "none"
    /\ last'.retDoc = SafeLoad(configFile.body)
    /\ config' = SafeLoad(configFile.body)
    /\ config_last_mtime' = configFile.mtime

\* C8 (as claimed): after the file is touched to a strictly later
\* modification time the next check_and_reload() returns (true, newContent)
\* and updates the cache and the recorded timestamp.
C8_LaterMtimeReloads ==
    [][ CfgTouchedLater => CfgReloaded ]_vars

\* C8 (amended): the same, provided the file's content is a document load()
\* accepts.
C8_LaterMtimeReloadsValid ==
    [][ (CfgTouchedLater /\ CfgLoads(configFile)) => CfgReloaded ]_vars

\* A reload over an earlier load: the timestamp moved forward and the cache
\* is the edited file's document.
C8_Witness ==
    /\ last.op = "config.check_and_reload"
    /\ last.quiet
    /\ last.reloaded
    /\ last.preMtime # NoMtime
    /\ last.preMtime < config_last_mtime
    /\ config_last_mtime = configFile.mtime
    /\ config = SafeLoad(configFile.body)

\* check_and_reload() starts on a file that exists with a modification time
\* equal to or earlier than the recorded one; nobody changes the file while
\* the call runs.
TouchedNotLater ==
    /\ last'.op \in CheckCalls
    /\ last'.quiet
    /\ IF last'.op = "config.check_and_reload"
       THEN /\ config_last_mtime # NoMtime
            /\ configFile.exists
            /\ configFile.mtime <= config_last_mtime
       ELSE /\ template_last_mtime # NoMtime
            /\ templateFile.exists
            /\ templateFile.mtime <= template_last_mtime

\* C9: a file whose modification time is equal to or earlier than the
\* recorded one is never reloaded: check_and_reload() returns false without
\* reading the file and leaves cache and timestamp unchanged.
C9_NotLaterNeverReloads ==
    [][ TouchedNotLater
        => /\ ~last'.reloaded
           /\ last'.raised = "none"
           /\ last'.reads = 0
           /\ KeptState(last') ]_vars

\* The file holds a valid document other than the cached one, with an
\* earlier modification time than the recorded one, and the check just made
\* has not taken it.
C9_Witness ==
    /\ last.op = "config.check_and_reload"
    /\ last.quiet
    /\ ~last.reloaded
    /\ last.preMtime = config_last_mtime
    /\ configFile.exists
    /\ configFile.mtime < config_last_mtime
    /\ CfgLoads(configFile)
    /\ config # NoDoc
    /\ SafeLoad(configFile.body) # config

\* A reload came to nothing earlier, and check_and_reload() now starts on a
\* file that exists and loads; nobody changes the file while the call runs.
RetryOnGoodFile ==
    /\ last'.op \in CheckCalls
    /\ last'.quiet
    /\ pending # "none"
    /\ IF last'.op = "config.check_and_reload"
       THEN CfgLoads(configFile)
       ELSE TplLoads(templateFile)

\* The file is newer than the recorded timestamp, or none is recorded.
NewerThanRecorded ==
    IF last'.op = "config.check_and_reload"
    THEN config_last_mtime = NoMtime \/ configFile.mtime > config_last_mtime
    ELSE template_last_mtime = NoMtime \/ templateFile.mtime > template_last_mtime

\* The call loaded the file and returned (true, its content).
Recovered ==
    /\ last'.reloaded
    /\ last'.raised = "none"
    /\ pending' = "none"
    /\ IF last'.op = "config.check_and_reload"
       THEN /\ last'.retDoc = SafeLoad(configFile.body)
            /\ config' = SafeLoad(configFile.body)
            /\ config_last_mtime' = configFile.mtime
       ELSE /\ last'.retTpl = GetTemplate(templateFile).tpl
            /\ template' = GetTemplate(templateFile).tpl
            /\ template_last_mtime' = templateFile.mtime

\* A failed attempt on a file nobody changed meanwhile leaves the recorded
\* timestamp and the cache alone.
FailedAttemptKeeps ==
    (last'.op \in CheckCalls /\ last'.quiet /\ LoadFailed(last')) => KeptState(last')

\* The repaired file holds something other than what is cached.
HoldsNewContent ==
    IF last'.op = "config.check_and_reload"
    THEN SafeLoad(configFile.body) # config
    ELSE GetTemplate(templateFile).tpl # template

\* C10 (as claimed): after a failed reload, the first check_and_reload()
\* made once the file exists and is valid again returns (true, newContent);
\* the failed attempt does not advance the recorded timestamp.  (Read in
\* the claim's favour: only a repaired file that differs from the cache
\* is required to be taken.)
C10_RetryRecovers ==
    [][ ((RetryOnGoodFile /\ HoldsNewContent) => Recovered) /\ FailedAttemptKeeps ]_vars

\* C10 (amended): the same, provided the repaired file's modification time
\* is strictly later than the recorded timestamp (or none is recorded).
C10_RetryRecoversWhenNewer ==
    [][ ((RetryOnGoodFile /\ NewerThanRecorded) => Recovered) /\ FailedAttemptKeeps ]_vars

\* A loader that had loaded once, then met a failed reload, has now taken
\* the repaired file.
C10_Witness ==
    /\ last.op = "config.check_and_reload"
    /\ last.quiet
    /\ last.wasPending
    /\ last.reloaded
    /\ last.preMtime # NoMtime
    /\ pending = "none"
    /\ config = SafeLoad(configFile.body)

\* A document that lacks a required key; an empty document has no keys.
LacksRequiredKey(doc) ==
    /\ doc.kind \in {"map", "null"}
    /\ \E i \in 1..Len(required_fields) : required_fields[i] \notin DOMAIN doc.map

\* C12: load() fails with FileNotFoundError when the path does not exist and
\* with the validation error (ValueError) whenever the document lacks a
\* required key, a document with no keys included; when it returns, the
\* cache is the file's document and the recorded timestamp the file's.
\* (Stated for calls during which nobody changes the file.)
C12_LoadContract ==
    [][ (last'.op = "config.load" /\ last'.quiet)
        => /\ ~configFile'.exists => last'.raised = "FileNotFoundError"
           /\ (configFile'.exists /\ LacksRequiredKey(SafeLoad(configFile'.body)))
                => last'.raised = "ValueError"
           /\ last'.raised = "none"
                => /\ config' = SafeLoad(configFile'.body)
                   /\ config_last_mtime' = configFile'.mtime
                   /\ last'.retDoc = config' ]_vars

\* C13: when check_and_reload() finds the watched path missing it returns
\* (false, the cached document or template, None if there is none) and
\* changes neither the cache nor the recorded timestamp; for ConfigLoader
\* and for PromptBuilder.
C13_MissingPathKeepsCache ==
    [][ (last'.op \in CheckCalls /\ last'.absent)
        => /\ last'.raised = "none"
           /\ ~last'.reloaded
           /\ KeptState(last') ]_vars

\* A loaded configuration file was deleted and check_and_reload() has just
\* run: the last good document is still cached.
C13_Witness ==
    /\ last.op = "config.check_and_reload"
    /\ last.absent
    /\ ~configFile.exists
    /\ config = lastGood
    /\ config # NoDoc
    /\ config_last_mtime # NoMtime

\* ------------------------------------------------------------------ claims on LogManager

\* C17: after construction and after any sequence of set_level calls the
\* root level is numerically <= the level of every logger of every curated
\* component, whatever the root level was at construction.
C17_RootBelowComponents ==
    \A n \in Categories : root_level <= logger_levels[n]

\* The confirmation mentions that the root was adjusted.
MentionsRoot(c) == \E i \in 1..Len(c.msg) : c.msg[i] = RootAdjustedLine(c.level)

\* C18: set_level on a curated component or "all" lowers the root to level
\* exactly when level is below the root, and its confirmation mentions a
\* root adjustment if and only if this call lowered the root.
C18_RootLoweredWhenBelow ==
    [][ (logCall'.op = "set_level" /\ logCall'.component \in Components \cup {"all"})
        => /\ logCall'.ok
           /\ root_level' = (IF logCall'.level < root_level
                             THEN logCall'.level ELSE root_level)
           /\ MentionsRoot(logCall') <=> (root_level' < root_level) ]_vars

\* "http" has just been set to DEBUG while the root was at WARNING: the root
\* is at DEBUG and the confirmation says so.
C18_Witness ==
    /\ logCall.op = "set_level"
    /\ logCall.component = "http"
    /\ logCall.level = DEBUG
    /\ logCall.root_before = WARNING
    /\ root_level = DEBUG
    /\ logCall.msg = <<"Http logs set to DEBUG", "(Root level auto-adjusted to DEBUG)">>

\* C19: set_level with a name that is neither a curated component nor "all"
\* returns a failure result and leaves the root level and every logger's
\* level as they were.
C19_UnknownComponentRejected ==
    [][ (logCall'.op = "set_level" /\ logCall'.component \notin Components \cup {"all"})
        => /\ ~logCall'.ok
           /\ ~MentionsRoot(logCall')
           /\ root_level' = root_level
           /\ logger_levels' = logger_levels ]_vars

\* set_level("bogus", DEBUG) has just been rejected with the root above DEBUG.
C19_Witness ==
    /\ logCall.op = "set_level"
    /\ logCall.component = "bogus"
    /\ logCall.level = DEBUG
    /\ ~logCall.ok
    /\ logCall.msg = <<"Unknown component: bogus">>
    /\ root_level > DEBUG

\* C20: all loggers of one curated component have the same level, and what
\* get_status() reports for a component is the level of each of them.
C20_ComponentLockStep ==
    /\ \A c \in Components : \A n, m \in LoggersOf(c) :
         logger_levels[n] = logger_levels[m]
    /\ logCall.op = "get_status"
         => \A c \in Components : \A n \in LoggersOf(c) :
              logCall.status.components[c] = LevelName(logger_levels[n])

\* get_status() has just reported "http" at a level set_level gave it.
C20_Witness ==
    /\ logCall.op = "get_status"
    /\ logCall.status.components["http"] = "DEBUG"
    /\ \A n \in LoggersOf("http") : logger_levels[n] = DEBUG
    /\ logger_levels["app.prompt"] = ERROR

\* ------------------------------------------------------------------ claims on SessionMemory

\* What get_history shows of a stored log.
Shown(log) == [i \in 1..Len(log) |-> [type |-> log[i].type, content |-> log[i].content]]

\* The owners other than o hold in lg2 what they hold in lg1.
OthersKept(lg1, lg2, o) ==
    \A x \in DOMAIN lg1 \ {o} : x \in DOMAIN lg2 /\ lg2[x] = lg1[x]

\* C21: get_session(id) returns the owner registered under id, or registers
\* a new empty one and returns it; it changes nothing else.  As long as
\* delete_session(id) is not called, the owner a caller got for id stays the
\* one registered under id, so a later lookup of id (get_history's) shows
\* the records the caller added through its owner.
C21_GetSessionSameOwner ==
    [][ /\ memCall'.op = "get_session" =>
             LET sid == memCall'.session_id
                 o == memCall'.owner
             IN  /\ sid \in DOMAIN registry'
                 /\ registry'[sid] = o
                 /\ \A k \in DOMAIN registry \ {sid} :
                        k \in DOMAIN registry' /\ registry'[k] = registry[k]
                 /\ DOMAIN registry' = DOMAIN registry \cup {sid}
                 /\ IF sid \in DOMAIN registry
                    THEN o = registry[sid] /\ logs' = logs
                    ELSE /\ o \notin DOMAIN logs
                         /\ logs'[o] = <<>>
                         /\ OthersKept(logs, logs', o)
                         /\ DOMAIN logs' = DOMAIN logs \cup {o}
        /\ (held'.owner # NoOwner /\ ~held'.deleted) =>
             /\ held'.sid \in DOMAIN registry'
             /\ registry'[held'.sid] = held'.owner
        /\ (/\ memCall'.op = "get_history"
            /\ memCall'.session_id = held.sid
            /\ held.owner # NoOwner
            /\ ~held.deleted) =>
             /\ memCall'.owner = held.owner
             /\ held'.history.value = Shown(logs[held.owner]) ]_vars

\* A record added through the owner the caller holds is shown by a later
\* lookup of the same session id.
C21_Witness ==
    /\ memCall.op = "get_history"
    /\ held.owner # NoOwner
    /\ ~held.deleted
    /\ memCall.session_id = held.sid
    /\ memCall.owner = held.owner
    /\ held.history.value = <<[type |-> "human", content |-> "Hi"]>>
    /\ logs[held.owner] = <<HumanMessage("Hi")>>

\* The sequence a begins the sequence b.
IsPrefix(a, b) == Len(a) <= Len(b) /\ SubSeq(b, 1, Len(a)) = a

\* The step clears owner o: clear_session of a session registered to o.
Clears(o) ==
    /\ memCall'.op = "clear_session"
    /\ memCall'.session_id \in DOMAIN registry
    /\ registry[memCall'.session_id] = o

\* C22: add_message makes the owner's log the previous log followed by the
\* record, whatever the record and the log are (a repeated record is stored
\* again), and changes no other log; on every step that is not a clear of
\* the owner, the owner's log before is a prefix of its log after, and on
\* every step that is not a clear or delete of a session, the session's log
\* before is a prefix of its log after.
C22_LogAppendOnly ==
    [][ /\ memCall'.op = "add_message" =>
             LET o == memCall'.owner
             IN  /\ o \in DOMAIN logs
                 /\ \E m \in Records : logs'[o] = logs[o] \o <<m>>
                 /\ Len(logs'[o]) = Len(logs[o]) + 1
                 /\ OthersKept(logs, logs', o)
                 /\ registry' = registry
        /\ \A o \in DOMAIN logs :
             /\ o \in DOMAIN logs'
             /\ Clears(o) \/ IsPrefix(logs[o], logs'[o])
        /\ \A sid \in DOMAIN registry :
             \/ /\ memCall'.op \in {"clear_session", "delete_session"}
                /\ memCall'.session_id = sid
             \/ /\ sid \in DOMAIN registry'
                /\ IsPrefix(sessions[sid], sessions'[sid]) ]_vars

\* The same record was added twice in a row and is stored twice.
C22_Witness ==
    /\ memCall.op = "add_message"
    /\ logs[memCall.owner] = <<AIMessage("Hello!"), AIMessage("Hello!")>>

\* C23: clear_session(id) on a registered session leaves the registry as it
\* is (same owner under id), leaves that owner with zero records and every
\* other owner's log as it was, and creates no owner; on an unregistered id
\* it changes neither the registry nor any log.
C23_ClearSession ==
    [][ memCall'.op = "clear_session" =>
          LET sid == memCall'.session_id
          IN  /\ registry' = registry
              /\ nextOwner' = nextOwner
              /\ DOMAIN logs' = DOMAIN logs
              /\ IF sid \in DOMAIN registry
                 THEN /\ logs'[registry[sid]] = <<>>
                      /\ OthersKept(logs, logs', registry[sid])
                      /\ sessions'[sid] = <<>>
                      /\ \A k \in DOMAIN sessions \ {sid} : sessions'[k] = sessions[k]
                 ELSE /\ logs' = logs
                      /\ sessions' = sessions
                      /\ sid \notin DOMAIN sessions' ]_vars

\* A session with records was cleared while the other session kept its own.
C23_Witness ==
    /\ memCall.op = "clear_session"
    /\ memCall.session_id = "default"
    /\ DOMAIN registry = SessionIds
    /\ held.owner = registry["default"]
    /\ logs[registry["default"]] = <<>>
    /\ logs[registry["test_session"]] # <<>>
    /\ held.history.of = registry["default"]
    /\ held.history.value # <<>>

\* C24: get_history(id) returns, in order, one {type, content} pair per
\* record of the session's stored log, equal to it element for element,
\* and changes no stored record; whatever a caller then does to the
\* returned sequence or to its elements leaves every stored log, and so what
\* a later get_history or build_messages reads, as it was.
C24_GetHistoryProjection ==
    [][ /\ memCall'.op = "get_history" =>
             LET sid == memCall'.session_id
                 o == memCall'.owner
                 h == held'.history
             IN  /\ sid \in DOMAIN registry'
                 /\ o = registry'[sid]
                 /\ h.of = o
                 /\ Len(h.value) = Len(logs'[o])
                 /\ \A i \in 1..Len(h.value) :
                      /\ h.value[i].type = logs'[o][i].type
                      /\ h.value[i].content = logs'[o][i].content
                 /\ h.value = Shown(sessions'[sid])
                 /\ \A x \in DOMAIN logs : logs'[x] = logs[x]
        /\ memCall'.op = "mutate" =>
             /\ logs' = logs
             /\ registry' = registry
             /\ sessions' = sessions ]_vars

\* The caller changed a returned history of two records; the stored log
\* still holds the two records.
C24_Witness ==
    /\ memCall.op = "mutate"
    /\ memCall.owner \in DOMAIN logs
    /\ logs[memCall.owner] = <<HumanMessage("Hi"), AIMessage("Hello!")>>
    /\ \E sid \in DOMAIN registry : registry[sid] = memCall.owner

\* ------------------------------------------------------------------ claims on the service's calls

\* The keys of a configuration that are not call parameters.
ReservedKeys == {"system_prompt", "model"}

\* C25: build_api_params returns the configuration's model as a field of its
\* own and, as call parameters, exactly the configuration's keys other than
\* system_prompt and model, each with the value the configuration gives it.
C25_ApiParamsSplit ==
    [][ (turn'.op = "build_api_params" /\ turn'.raised = "none")
        => /\ config'.kind = "map"
           /\ turn'.model = config'.map["model"]
           /\ DOMAIN turn'.kwargs = DOMAIN config'.map \ ReservedKeys
           /\ \A k \in DOMAIN turn'.kwargs : turn'.kwargs[k] = config'.map[k] ]_vars

\* build_api_params has split a configuration that declares a system
\* prompt: the model apart, the two other keys forwarded.
C25_Witness ==
    /\ turn.op = "build_api_params"
    /\ turn.raised = "none"
    /\ "system_prompt" \in DOMAIN config.map
    /\ turn.model = "m"
    /\ turn.kwargs = [temperature |-> "0.2", max_tokens |-> "100"]

\* C26: a send_message call calls the transport at most once, with the
\* configuration's model, the whole sequence build_messages built and the
\* forwarded parameters; if the transport raises, the caller sees that
\* exception and the transport was called exactly once.
C26_SingleDispatch ==
    [][ turn'.op = "send_message"
        => /\ Len(turn'.calls) <= 1
           /\ turn'.dispatched = Len(turn'.calls)
           /\ turn'.calls # <<>> =>
                /\ turn'.built
                /\ turn'.calls[1].model = config'.map["model"]
                /\ turn'.calls[1].messages = turn'.messages
                /\ turn'.calls[1].messages =
                     BuildMessages(State, turn'.user_input, turn'.session_id).messages
                /\ DOMAIN turn'.calls[1].kwargs = DOMAIN config'.map \ ReservedKeys
                /\ \A k \in DOMAIN turn'.calls[1].kwargs :
                     turn'.calls[1].kwargs[k] = config'.map[k]
           /\ turn'.answer = "raise" =>
                /\ turn'.raised = "TransportError"
                /\ Len(turn'.calls) = 1
                /\ turn'.response = ""
           /\ turn'.raised = "TransportError" => turn'.answer = "raise"
           /\ (turn'.raised # "none" /\ turn'.raised # "TransportError") =>
                turn'.calls = <<>> ]_vars

\* The transport was called once with a system message, a stored turn and
\* the current input, and raised.
C26_Witness ==
    /\ turn.op = "send_message"
    /\ turn.answer = "raise"
    /\ turn.raised = "TransportError"
    /\ Len(turn.calls) = 1
    /\ Len(turn.calls[1].messages) = 4
    /\ turn.calls[1].messages[1].type = "system"
    /\ turn.calls[1].model = "m"
    /\ turn.calls[1].kwargs = [temperature |-> "0.2", max_tokens |-> "100"]

\* The configuration of the end-to-end scenario.
ScenarioConfig ==
    [kind |-> "map",
     map |-> [model |-> "m", temperature |-> "0.2", max_tokens |-> "100",
              system_prompt |-> "You are S"]]

\* The step is a call of the scenario: configuration ScenarioConfig in use,
\* the session empty before the call, input "Hi".
ScenarioCall ==
    /\ config' = ScenarioConfig
    /\ turn'.user_input = "Hi"
    /\ History(sessions, turn'.session_id) = <<>>

\* What the scenario expects of a step that is a scenario call.
ScenarioOutcome ==
    /\ (turn'.op \in {"build_messages", "send_message"} /\ turn'.built) =>
          turn'.messages = <<SystemMessage("You are S"), HumanMessage("Hi")>>
    /\ (turn'.op = "send_message" /\ turn'.response = "Hello!") =>
          GetHistory(sessions', turn'.session_id).history =
              <<[type |-> "human", content |-> "Hi"],
                [type |-> "ai", content |-> "Hello!"]>>

\* C29 as stated: with the scenario's configuration, an empty session and
\* input "Hi", build_messages yields [System("You are S"), Human("Hi")], and
\* after a send_message answered "Hello!" get_history returns
\* [{human, "Hi"}, {ai, "Hello!"}].
C29_EndToEnd_AsStated ==
    [][ ScenarioCall => ScenarioOutcome ]_vars

\* C29, for a primary template that renders the configured system prompt:
\* with the scenario's configuration, an empty session and input "Hi",
\* build_messages yields [System("You are S"), Human("Hi")], and after a
\* send_message answered "Hello!" get_history returns
\* [{human, "Hi"}, {ai, "Hello!"}].
C29_EndToEnd ==
    [][ (ScenarioCall /\ template'.src = "T1") => ScenarioOutcome ]_vars

\* The scenario has run: send_message built the two messages, the transport
\* answered "Hello!", and the session holds the turn.
C29_Witness ==
    /\ turn.op = "send_message"
    /\ config = ScenarioConfig
    /\ template.src = "T1"
    /\ turn.user_input = "Hi"
    /\ turn.response = "Hello!"
    /\ turn.messages = <<SystemMessage("You are S"), HumanMessage("Hi")>>
    /\ GetHistory(sessions, turn.session_id).history =
           <<[type |-> "human", content |-> "Hi"],
             [type |-> "ai", content |-> "Hello!"]>>

\* The service as it is, but deployed without a user-template file.
WithoutUserTemplate ==
    [State EXCEPT !.uf = NoFile, !.user_template = NoTemplate,
                  !.user_last_mtime = NoMtime]

\* C30: whatever the user-template file is, a send_message call dispatches
\* the same message sequence to the transport, returns the same reply and
\* persists the same records as the same call on the same configuration,
\* history and input does without a user-template file.
C30_UserTemplateInert ==
    [][ turn'.op = "send_message"
        => \A answer \in Replies \cup {"raise"} :
             turn'.answer \in {answer, "-"} =>
               LET ref == SendMessage(WithoutUserTemplate, turn'.user_input,
                                      turn'.session_id, turn'.log_full_history,
                                      answer)
               IN  /\ turn'.calls = ref.calls
                   /\ turn'.response = ref.response
                   /\ turn'.raised = ref.err
                   /\ sessions' = ref.st.sessions ]_vars

\* ------------------------------------------------------------------ claims on the service's log output

\* The service as it is, but with no prior turn in any session.
WithoutPriorTurns == [State EXCEPT !.sessions = NoSessions]

\* C27: a send_message call logs in one mode only, the one its flag selects;
\* and in current-turn mode everything the call emits - the API-call log
\* record and what build_messages prints - is what the same call emits with
\* the same configuration, templates and input on a session without prior
\* turns.
C27_CurrentTurnLogHidesHistory ==
    [][ turn'.op = "send_message"
        => /\ turn'.logged.mode \in
                {"-", IF turn'.log_full_history THEN "full" ELSE "current"}
           /\ ~turn'.log_full_history =>
                LET ref == SendMessage(WithoutPriorTurns, turn'.user_input,
                                       turn'.session_id, FALSE, "raise")
                IN  /\ turn'.logged = ref.logged
                    /\ turn'.console = ref.console ]_vars

\* ------------------------------------------------------------------ claims on the adapter's start

\* C28: if the initial load of the configuration or of the primary template
\* fails, the process ends with status 1; a process that has ended takes no
\* further step, so it accepts no input, dispatches nothing and stores
\* nothing; and the REPL is entered only with both loaded.
C28_InitialLoadFatal ==
    [][ /\ focus # "exited"
        /\ turn'.op = "boot" =>
             /\ turn'.raised # "none" =>
                  (focus' = "exited" /\ turn'.exit = "1")
             /\ (turn'.quiet /\ (~CfgLoads(configFile) \/ ~TplLoads(templateFile))) =>
                  (turn'.raised # "none" /\ focus' = "exited")
             /\ focus' # "exited" =>
                  /\ turn'.exit = "-"
                  /\ config'.kind = "map"
                  /\ Validate(config') = "none"
                  /\ template'.kind = "template"
        /\ focus' = "exited" =>
             /\ turn'.op = "boot"
             /\ turn'.exit = "1"
             /\ turn'.calls = <<>>
             /\ sessions' = NoSessions ]_vars

\* The configuration file was missing a required key when the adapter was
\* constructed; the process has ended with status 1 and nothing was sent.
C28_Witness ==
    /\ focus = "exited"
    /\ turn.op = "boot"
    /\ turn.quiet
    /\ turn.raised = "ValueError"
    /\ turn.exit = "1"
    /\ configFile.body = "Bad"
    /\ sessions = NoSessions

\* ------------------------------------------------------------------ claims on stored turns

\* The log h is a whole number of turns: human, ai, human, ai, ...
WholeTurns(h) ==
    /\ Len(h) % 2 = 0
    /\ \A i \in 1..Len(h) :
         h[i].type = (IF i % 2 = 1 THEN "human" ELSE "ai")

\* C31: whatever send_message calls (answered or failing at dispatch),
\* build_messages, get_history and clear_history calls were made, every
\* session's history has even length and alternates human, ai, ...
\* starting with a human record.
C31_WholeTurns ==
    \A sid \in DOMAIN sessions : WholeTurns(sessions[sid])

\* A session holds two whole turns and the last send_message on it failed
\* at dispatch, while the other session holds nothing after a clear or a
\* first access.
C31_Witness ==
    /\ turn.op = "send_message"
    /\ turn.raised = "TransportError"
    /\ turn.session_id = "default"
    /\ DOMAIN sessions = SessionIds
    /\ Len(sessions["default"]) = 2
    /\ sessions["default"][1].type = "human"
    /\ sessions["default"][2].type = "ai"
    /\ sessions["test_session"] = <<>>

\* The calls of the service that name a session.
SessionCalls == {"send_message", "build_messages", "get_history", "clear_history"}

\* The service as it is, but with no session other than sid.
OnlySession(sid) ==
    [State EXCEPT !.sessions = [k \in DOMAIN sessions \cap {sid} |-> sessions[k]]]

\* C32: a send_message, build_messages, get_history or clear_history call
\* on session A leaves every other session registered or not as it was and
\* with the history it had, and the sequence built for A is the one built
\* when no other session exists.
C32_SessionsIsolated ==
    [][ turn'.op \in SessionCalls
        => /\ \A B \in SessionIds \ {turn'.session_id} :
                /\ (B \in DOMAIN sessions') <=> (B \in DOMAIN sessions)
                /\ History(sessions', B) = History(sessions, B)
           /\ turn'.built =>
                turn'.messages =
                  BuildMessages(OnlySession(turn'.session_id), turn'.user_input,
                                turn'.session_id).messages ]_vars

\* Session "default" was cleared while "test_session" holds a turn, and
\* "test_session" still holds it.
C32_Witness ==
    /\ turn.op = "clear_history"
    /\ turn.session_id = "default"
    /\ DOMAIN sessions = SessionIds
    /\ sessions["default"] = <<>>
    /\ sessions["test_session"] = <<HumanMessage("Yo"), AIMessage("Hello!")>>

\* ------------------------------------------------------------------ claims on the logging flag

\* C33: from the same state and with the same input and transport
\* behaviour, send_message with log_full_history true and with it false
\* dispatch the same calls, return or raise the same and leave the same
\* session histories.
C33_FlagSelectsLogOnly ==
    [][ turn'.op = "send_message"
        => \A answer \in Replies \cup {"raise"} :
             turn'.answer \in {answer, "-"} =>
               LET other == SendMessage(State, turn'.user_input, turn'.session_id,
                                        ~turn'.log_full_history, answer)
               IN  /\ turn'.calls = other.calls
                   /\ turn'.response = other.response
                   /\ turn'.raised = other.err
                   /\ sessions' = other.st.sessions ]_vars

\* ------------------------------------------------------------------ claims on edits during a call

\* During the step's call the configuration file was written once, leaving
\* a file that loads, with a strictly later modification time.
ValidWriteDuringCall ==
    /\ last'.op \in ConfigCalls
    /\ configFile.exists
    /\ configFile' # configFile
    /\ CfgLoads(configFile')
    /\ configFile'.mtime > configFile.mtime

\* The next check_and_reload(), run with the file left alone, ends with the
\* file's document cached.
NextCheckCatchesUp(cfg, mt, f) ==
    ConfigCheckAndReload(cfg, mt, Still(f, 5)).config = SafeLoad(f.body)

\* C34: a write that lands during a call of the loader and leaves the file
\* valid with a strictly later modification time is in the cache after the
\* call, or after the next check_and_reload().
C34_NoValidEditMissed ==
    [][ ValidWriteDuringCall
        => NextCheckCatchesUp(config', config_last_mtime', configFile') ]_vars

\* ------------------------------------------------------------------ claims on the root level

\* The smaller of two levels.
MinLevel(a, b) == IF a <= b THEN a ELSE b

OtherBranch == [State EXCEPT !.debug = ~State.debug]

\* C36: build_messages returns or raises the same, returns the same
\* sequence and leaves the same session memory whether DEBUG is enabled
\* on its logger or not.
C36_BranchesEquivalent ==
    [][ turn'.op = "build_messages"
        => LET other == BuildMessages(OtherBranch, turn'.user_input,
                                      turn'.session_id)
           IN  /\ turn'.raised = other.err
               /\ turn'.messages = other.messages
               /\ sessions' = other.st.sessions ]_vars

\* ------------------------------------------------------------------ claims on input processing

\* C37: for every typed line and either logger level process_user_input
\* returns, with processed = the line stripped, and type and valid =
\* "command", TRUE if the stripped line starts with "/", "empty", FALSE if
\* it is empty, "message", TRUE otherwise.
C37_InputClassified ==
    [][ (turn'.op = "process_user_input" /\ UNCHANGED logVars)
        => LET p == Strip(turn'.user_input)
           IN  /\ turn'.raised = "none"
               /\ turn'.info.processed = p
               /\ (p # <<>> /\ p[1] = "/") =>
                    (turn'.info.type = "command" /\ turn'.info.valid)
               /\ p = <<>> =>
                    (turn'.info.type = "empty" /\ ~turn'.info.valid)
               /\ (p # <<>> /\ p[1] # "/") =>
                    (turn'.info.type = "message" /\ turn'.info.valid) ]_vars

\* ------------------------------------------------------------------ claims on the cached user template

\* The user template file as render_user finds it, untouched during the
\* call, offers nothing newer than what was recorded: it is gone, or its
\* modification time is not later than the recorded one.
NothingNewer ==
    /\ turn'.quiet
    /\ \/ ~userTemplateFile'.exists
       \/ /\ user_last_mtime # NoMtime
          /\ userTemplateFile'.mtime <= user_last_mtime

\* C38: once a user template is cached, render_user never passes the input
\* through again.  With the file removed, or a file whose modification time
\* is not strictly later than the recorded one, it renders with the cached
\* template and keeps it and its timestamp; the cached template is replaced
\* only by a load of a file with a strictly later modification time.
C38_CachedUserTemplateKept ==
    [][ (/\ turn'.op = "render_user"
         /\ focus = "prompt.user"
         /\ user_template # NoTemplate
         /\ user_last_mtime # NoMtime)
        => /\ user_template' # NoTemplate
           /\ turn'.raised = "none" =>
                turn'.rendered = Render(user_template', turn'.user_input, RenderConfig)
           /\ NothingNewer =>
                /\ turn'.raised = "none"
                /\ user_template' = user_template
                /\ user_last_mtime' = user_last_mtime
           /\ (turn'.quiet /\ user_template' # user_template) =>
                /\ userTemplateFile'.exists
                /\ userTemplateFile'.mtime > user_last_mtime
                /\ user_last_mtime' = userTemplateFile'.mtime ]_vars

\* render_user has just rendered with the cached user template although
\* the file it was loaded from has been removed.
C38_Witness ==
    /\ focus = "prompt.user"
    /\ turn.op = "render_user"
    /\ turn.quiet
    /\ turn.raised = "none"
    /\ ~userTemplateFile.exists
    /\ user_template # NoTemplate
    /\ user_last_mtime # NoMtime
    /\ turn.rendered = Render(user_template, turn.user_input, RenderConfig)
    /\ turn.rendered # turn.user_input

\* ------------------------------------------------------------------ claims on streaming

\* Every session but sid shows the same history before and after the step.
OthersUntouched(sid) ==
    \A o \in SessionIds \ {sid} : History(sessions', o) = History(sessions, o)

\* C39: stream_message stores the turn only when the chunk stream has been
\* consumed to its end.  While chunks are yielded, when the stream or the
\* preparation raises and when the consumer stops iterating, every history
\* stays as it was; when the stream ends, the human record of user_input
\* and then one ai record holding all yielded chunks concatenated in order
\* are appended to the session's history, which is the response returned.
C39_PersistAfterStream ==
    [][ (focus = "stream" /\ stream' # stream)
        => LET sid == stream'.session_id
           IN  /\ stream'.state # "returned" =>
                    \A o \in SessionIds : History(sessions', o) = History(sessions, o)
               /\ stream'.state = "returned" =>
                    /\ History(sessions', sid) =
                          History(sessions, sid)
                          \o <<HumanMessage(stream.user_input),
                               AIMessage(Join(stream.chunks))>>
                    /\ OthersUntouched(sid)
                    /\ turn'.response = Join(stream.chunks)
                    /\ stream'.chunks = stream.chunks ]_vars

\* A stream of two different chunks was consumed to its end and the turn
\* stored behind an earlier one.
C39_Witness ==
    /\ focus = "stream"
    /\ stream.state = "returned"
    /\ Len(stream.chunks) = 2
    /\ stream.chunks[1] # stream.chunks[2]
    /\ turn.op = "next"
    /\ turn.response = stream.chunks[1] \o stream.chunks[2]
    /\ stream.session_id \in DOMAIN sessions
    /\ Len(sessions[stream.session_id]) = 4
    /\ sessions[stream.session_id][3] = HumanMessage(stream.user_input)
    /\ sessions[stream.session_id][4] = AIMessage(turn.response)

====
